---- MODULE Spec2Model ----
(***************************************************************************)
(* Model of the metrics sampler of the SRE agent                           *)
(* (app/services/metrics_collector.py): the MetricsCollector object, its   *)
(* background collection task(s) running on one asyncio event loop, the    *)
(* start/stop lifecycle and the read queries; and of its incident analyzer *)
(* (app/services/incident_analyzer.py): the four adapters, the merge of    *)
(* their findings, the root-cause ranking and the action plan.             *)
(*                                                                         *)
(* Time is counted in seconds.  Python >= 3.8 is assumed, where            *)
(* asyncio.CancelledError is a BaseException and is therefore not caught   *)
(* by "except Exception".                                                  *)
(***************************************************************************)
EXTENDS Integers, Sequences, FiniteSets, TLC

VARIABLES
    is_running,         \* MetricsCollector._is_running
    collection_task,    \* MetricsCollector._collection_task (0 = None, else a task id)
    collected_metrics,  \* MetricsCollector._collected_metrics: section name -> [timestamp, metrics]
    anomalies,          \* MetricsCollector._anomalies
    task,               \* the asyncio tasks created by start(): id -> local state of _collect_metrics_loop
    running,            \* the task the event loop is executing right now (0 = the loop is free)
    ctl,                \* the caller of start()/stop(): "idle", or "stopping" while stop() awaits the task
    now,                \* datetime.utcnow(), in seconds
    stop_raised,        \* whether a call of stop() has raised
    appended,           \* history: every anomaly ever appended to _anomalies, in append order
    tick_end,           \* history: the time the latest call of _collect_all_metrics returned (-1: never)
    last_op,            \* history: the latest lifecycle call that completed ("none", "start", "stop")
    summary,            \* the result of the latest get_metrics_summary call
    prev_summary,       \* the result of the call before it
    fresh,              \* history: TRUE iff no sampler step ran since the latest get_metrics_summary call
    untouched,          \* history: TRUE iff no sampler step ran between the two latest get_metrics_summary calls
    anomaly_result,     \* the result of the latest get_anomalies call
    stable,             \* history: <<store, log>> as they were when the latest tick returned
    torn,               \* history: TRUE iff some query read the store or the log inside a tick
    inputs,             \* the upstream responses the environment can give (fixed per behaviour)
    analysis,           \* IncidentAnalyzer.analyze_incident: the call in progress, its position and locals
    router,             \* app/api/routers.py: the module's own MetricsCollector and what its routes returned
    second,             \* a second call of analyze_incident, suspended while the first one runs
    health              \* HealthCheckService.check_kubernetes_cluster_health: the call in progress

vars == <<is_running, collection_task, collected_metrics, anomalies, task, running, ctl, now,
          stop_raised, appended, tick_end, last_op, summary, prev_summary, fresh, untouched,
          anomaly_result, stable, torn, inputs, analysis, router,
          second, health>>

collector_vars == <<is_running, collection_task, collected_metrics, anomalies, task, running,
                    ctl, now, stop_raised, appended, tick_end, last_op, summary, prev_summary,
                    fresh, untouched, anomaly_result, stable, torn, inputs>>

(* The state of request handling outside the sampling collector *)
request_vars == <<analysis, router, second, health>>

----------------------------------------------------------------------------
(* Bounds of the model *)

MaxTasks == 2          \* how many times start() may create a task
MaxTime == 43202       \* the clock stops advancing here
BigFleet == 51         \* a fleet large enough to breach more than 100 thresholds in one tick

(* Program constants *)

MaxAnomalies == 100    \* "Keep only last 100 anomalies"
RetentionHours == 6    \* timedelta(hours=6)
RecentMinutes == 30    \* timedelta(minutes=30)
SleepNormal == 60      \* asyncio.sleep(60)
SleepRetry == 30       \* asyncio.sleep(30)
ClusterCpuLimit == 80
ClusterMemLimit == 85
NodeCpuLimit == 90
NodeMemLimit == 95

Retention == RetentionHours * 3600
Recent == RecentMinutes * 60

Tasks == 1..MaxTasks

(* The clock advances in steps of exactly the retention horizon, or one     *)
(* second more: every step outlasts a sleep and the recent-anomaly window.  *)
ClockSteps == {Retention, Retention + 1}

----------------------------------------------------------------------------
(* Python values *)

EmptyDict == <<>>                      \* {} : a dict is a function on its keys

Has(d, k) == k \in DOMAIN d            \* k in d

Get(d, k, default) == IF Has(d, k) THEN d[k] ELSE default    \* d.get(k, default)

Put(d, k, v) == [x \in (DOMAIN d) \cup {k} |-> IF x = k THEN v ELSE d[x]]   \* d[k] = v

(* An insertion-ordered dict whose iteration order matters: a sequence of   *)
(* <<key, value>> pairs with distinct keys.                                 *)
OHas(od, k) == \E i \in 1..Len(od) : od[i][1] = k

IndexOf(od, k) == CHOOSE i \in 1..Len(od) : od[i][1] = k

OGet(od, k) == od[IndexOf(od, k)][2]

OPut(od, k, v) ==
    IF OHas(od, k) THEN [od EXCEPT ![IndexOf(od, k)] = <<k, v>>]
    ELSE Append(od, <<k, v>>)

(* An upstream call either raises or returns a list of results *)
Raise == [err |-> TRUE, res |-> <<>>]
Ok(list) == [err |-> FALSE, res |-> list]

----------------------------------------------------------------------------
(* The bodies of the collector's for loops *)

(* result["metric"].get("instance", "").split(":")[0]: the instance label   *)
(* is <<host, port>>; host 0 stands for a missing or empty label.           *)
InstanceOf(result) == result.instance[1]

(* "Parse CPU results": creates the node's entry *)
NodeCpuStep(nm, result) ==
    LET instance == InstanceOf(result)
        old == IF OHas(nm, instance) THEN OGet(nm, instance) ELSE EmptyDict
    IN  IF instance # 0
        THEN OPut(nm, instance, Put(old, "cpu_usage_percent", result.value))
        ELSE nm

(* "Parse memory results" / "Parse disk results": only for known nodes *)
NodeFieldStep(field, nm, result) ==
    LET instance == InstanceOf(result)
    IN  IF instance # 0 /\ OHas(nm, instance)
        THEN OPut(nm, instance, Put(OGet(nm, instance), field, result.value))
        ELSE nm

NodeMemStep(nm, result) == NodeFieldStep("memory_usage_percent", nm, result)
NodeDiskStep(nm, result) == NodeFieldStep("disk_usage_percent", nm, result)

PodFieldStep(field, pm, result) ==
    LET pod_name == result.pod
        namespace == result.namespace
        key == <<namespace, pod_name>>
        old == IF OHas(pm, key) THEN OGet(pm, key)
               ELSE [namespace |-> namespace, pod |-> pod_name]
    IN  IF pod_name # 0 /\ namespace # 0
        THEN OPut(pm, key, Put(old, field, result.value))
        ELSE pm

PodCpuStep(pm, result) == PodFieldStep("cpu_usage_seconds", pm, result)
PodMemStep(pm, result) == PodFieldStep("memory_usage_bytes", pm, result)

(* The node checks with the memory check in an elif of the cpu check *)
OneNodeAnomaliesElif(node_name, metrics, current_time) ==
    IF Get(metrics, "cpu_usage_percent", 0) > NodeCpuLimit
    THEN << [type |-> "high_node_cpu", severity |-> "critical", resource |-> <<"node", node_name>>,
             metric |-> "node_cpu_usage", value |-> metrics["cpu_usage_percent"],
             threshold |-> NodeCpuLimit, timestamp |-> current_time] >>
    ELSE IF Get(metrics, "memory_usage_percent", 0) > NodeMemLimit
    THEN << [type |-> "high_node_memory", severity |-> "critical", resource |-> <<"node", node_name>>,
             metric |-> "node_memory_usage", value |-> metrics["memory_usage_percent"],
             threshold |-> NodeMemLimit, timestamp |-> current_time] >>
    ELSE <<>>

(* _detect_anomalies: the checks of one node; f"node/{node_name}" is the    *)
(* pair <<"node", node_name>>                                               *)
OneNodeAnomalies(node_name, metrics, current_time) ==
    (IF Get(metrics, "cpu_usage_percent", 0) > NodeCpuLimit
     THEN << [type |-> "high_node_cpu", severity |-> "critical", resource |-> <<"node", node_name>>,
              metric |-> "node_cpu_usage", value |-> metrics["cpu_usage_percent"],
              threshold |-> NodeCpuLimit, timestamp |-> current_time] >>
     ELSE <<>>)
    \o
    (IF Get(metrics, "memory_usage_percent", 0) > NodeMemLimit
     THEN << [type |-> "high_node_memory", severity |-> "critical", resource |-> <<"node", node_name>>,
              metric |-> "node_memory_usage", value |-> metrics["memory_usage_percent"],
              threshold |-> NodeMemLimit, timestamp |-> current_time] >>
     ELSE <<>>)

(* "for node_name, metrics in node_metrics.items()" *)
NodeAnomalyStep(found, item) == found \o OneNodeAnomalies(item[1], item[2], item[3])

(* get_anomalies: the list comprehension's test *)
FilterStep(recent, item) ==
    IF item[1].timestamp >= item[2] THEN Append(recent, item[1]) ELSE recent

----------------------------------------------------------------------------
(* The incident analyzer (app/services/incident_analyzer.py): the bodies of *)
(* the adapters' for loops.  A finding is the dict the adapter appends; an  *)
(* f-string is the tuple of its parts; None is the string "<None>".         *)

None == "<None>"

(* _analyze_kubernetes_state, "for node in nodes" *)
NodeStep(issues, node) ==
    IF node.status # "Ready"
    THEN Append(issues,
           [type |-> "node_not_ready", severity |-> "critical",
            resource |-> <<"node", node.name>>,
            description |-> <<"Node", node.name, "is not ready">>,
            suggested_actions |-> <<"Check node resources and kubelet status",
                                    "Verify network connectivity",
                                    "Review node events for details">>])
    ELSE issues

(* "for pod in pods" *)
PodStep(issues, pod) ==
    IF pod.status = "CrashLoopBackOff"
    THEN Append(issues,
           [type |-> "pod_crash_loop", severity |-> "high",
            resource |-> <<"pod", pod.namespace, pod.name>>,
            description |-> <<"Pod", pod.name, "in CrashLoopBackOff">>,
            suggested_actions |-> <<"Check pod logs for application errors",
                                    "Verify resource limits and requests",
                                    "Review container configuration">>])
    ELSE IF pod.restarts > 10
    THEN Append(issues,
           [type |-> "frequent_restarts", severity |-> "medium",
            resource |-> <<"pod", pod.namespace, pod.name>>,
            description |-> <<"Pod", pod.name, "has restarted", pod.restarts, "times">>,
            suggested_actions |-> <<"Investigate application stability",
                                    "Check for memory leaks",
                                    "Review liveness/readiness probes">>])
    ELSE issues

(* "for event in warning_events[:10]" *)
EventStep(issues, event) ==
    Append(issues,
      [type |-> "kubernetes_warning", severity |-> "medium",
       resource |-> <<event.kind, event.namespace, event.name>>,
       description |-> <<event.reason, event.message>>,
       suggested_actions |-> <<"Review event details for specific causes",
                               "Check related resource configurations">>])

(* str.lower() on the severities Prometheus rules carry *)
Lower(str) ==
    CASE str = "CRITICAL" -> "critical"
      [] str = "Critical" -> "critical"
      [] str = "WARNING" -> "warning"
      [] str = "INFO" -> "info"
      [] OTHER -> str

(* _map_alert_severity, for a string *)
MapAlertSeverity(prometheus_severity) ==
    LET key == Lower(prometheus_severity)
    IN  CASE key = "critical" -> "critical"
          [] key = "warning" -> "medium"
          [] key = "info" -> "low"
          [] OTHER -> "medium"

(* _analyze_metrics, "for alert in firing_alerts"; acc = <<alerts, raised>>.*)
(* check_alerts gives every alert a "severity" key, None when the label is  *)
(* missing, so get("severity", "warning") returns None and None.lower()     *)
(* raises AttributeError, which ends the loop; "instance" is always a key   *)
(* too, so get("instance", "unknown") returns the label or None.            *)
AlertStep(acc, alert) ==
    IF acc[2] THEN acc
    ELSE IF alert.severity = None THEN <<acc[1], TRUE>>
    ELSE <<Append(acc[1],
             [type |-> "prometheus_alert",
              severity |-> MapAlertSeverity(alert.severity),
              resource |-> alert.instance,
              description |-> <<"Alert", alert.name, "is firing">>,
              suggested_actions |-> <<"Review alert rules and thresholds",
                                      "Check related metrics for root cause",
                                      "Verify resource utilization">>]),
           FALSE>>

(* f"high_{metric_type}" for the metric types of the cluster metrics *)
HighType(metric_type) ==
    CASE metric_type = "cpu_usage" -> "high_cpu_usage"
      [] metric_type = "memory_usage" -> "high_memory_usage"
      [] metric_type = "disk_usage" -> "high_disk_usage"

(* "for metric in metric_data", item = <<metric_type, metric>> *)
UtilisationStep(alerts, item) ==
    LET metric_type == item[1]
        metric == item[2]
        value == metric.value
    IN  IF value > 80
        THEN Append(alerts,
               [type |-> HighType(metric_type), severity |-> "high",
                resource |-> metric.instance,
                description |-> <<"High", metric_type, value>>,
                suggested_actions |-> <<"Consider scaling resources",
                                        "Check for resource leaks",
                                        "Review resource requests/limits">>])
        ELSE alerts

(* _analyze_logs, "for error in errors": errors_by_service as an ordered    *)
(* dict service -> list of errors                                           *)
GroupStep(errors_by_service, error) ==
    LET service == error.job
        old == IF OHas(errors_by_service, service) THEN OGet(errors_by_service, service)
               ELSE <<>>
    IN  OPut(errors_by_service, service, Append(old, error))

(* "for service, service_errors in errors_by_service.items()" *)
PatternStep(error_patterns, item) ==
    LET service == item[1]
        service_errors == item[2]
        error_count == Len(service_errors)
    IN  Append(error_patterns,
          [type |-> "application_errors",
           severity |-> IF error_count > 10 THEN "high" ELSE "medium",
           resource |-> <<"service", service>>,
           description |-> <<"Found", error_count, "errors in", service>>,
           sample_messages |-> [i \in 1..(IF error_count < 3 THEN error_count ELSE 3) |->
                                   service_errors[i].message],
           suggested_actions |-> <<"Review application logs for root cause",
                                   "Check recent deployments or changes",
                                   "Verify dependencies and connections">>])

(* _analyze_traces, "for service in services[:5]", item = <<service, the    *)
(* answer of analyze_latency>>: a raise and the answer "No traces found"    *)
(* (no latency_metrics key: KeyError) are caught and the service skipped;   *)
(* the error-rate finding is appended before latency_metrics is read.       *)
TraceStep(performance_issues, item) ==
    LET service == item[1]
        latency_analysis == item[2]
        rate_high == ~latency_analysis.err /\ ~latency_analysis.empty
                        /\ 10 * latency_analysis.error_traces > latency_analysis.total_traces
        p1 == IF rate_high
              THEN Append(performance_issues,
                     [type |-> "high_error_rate", severity |-> "high",
                      resource |-> <<"service", service>>,
                      description |-> <<"High error rate", latency_analysis.error_traces,
                                        latency_analysis.total_traces>>,
                      suggested_actions |-> <<"Investigate failing requests",
                                              "Check service dependencies",
                                              "Review recent changes">>])
              ELSE performance_issues
    IN  IF latency_analysis.err \/ latency_analysis.empty THEN performance_issues
        ELSE IF latency_analysis.p95 > 1000000
        THEN Append(p1,
               [type |-> "high_latency", severity |-> "medium",
                resource |-> <<"service", service>>,
                description |-> <<"High p95 latency", latency_analysis.p95>>,
                suggested_actions |-> <<"Optimize database queries",
                                        "Review external API calls",
                                        "Check resource utilization">>])
        ELSE p1

(* A plan step for every suggested action of the finding *)
PlanStepAllActions(steps, finding) ==
    IF Has(finding, "suggested_actions") /\ finding["suggested_actions"] # <<>>
    THEN LET actions == finding["suggested_actions"]
         IN  steps \o [j \in 1..Len(actions) |->
                         [step |-> Len(steps) + j,
                          action |-> actions[j],
                          estimated_duration |-> 15,
                          critical |-> FALSE,
                          related_finding |-> finding.type]]
    ELSE steps

(* _generate_action_plan, "for i, finding in enumerate(findings[:3])" with   *)
(* its inner "for j, action in enumerate(finding["suggested_actions"][:2])" *)
PlanStep(steps, finding) ==
    IF Has(finding, "suggested_actions") /\ finding["suggested_actions"] # <<>>
    THEN LET all == finding["suggested_actions"]
             actions == IF Len(all) > 2 THEN SubSeq(all, 1, 2) ELSE all
         IN  steps \o [j \in 1..Len(actions) |->
                         [step |-> Len(steps) + j,
                          action |-> actions[j],
                          estimated_duration |-> 15,
                          critical |-> FALSE,
                          related_finding |-> finding.type]]
    ELSE steps

----------------------------------------------------------------------------
(* The for loops of the program: "for result in results: acc = step(acc,    *)
(* result)", loop naming the loop body.  The range lo..hi is split in       *)
(* halves, and the first half is computed (its length taken) before the     *)
(* second starts, which keeps TLC's evaluation shallow; acc is always a     *)
(* sequence.                                                                *)
LoopBody(loop, acc, result) ==
    CASE loop = "node_cpu" -> NodeCpuStep(acc, result)
      [] loop = "node_memory" -> NodeMemStep(acc, result)
      [] loop = "node_disk" -> NodeDiskStep(acc, result)
      [] loop = "pod_cpu" -> PodCpuStep(acc, result)
      [] loop = "pod_memory" -> PodMemStep(acc, result)
      [] loop = "node_anomalies" -> NodeAnomalyStep(acc, result)
      [] loop = "recent_anomalies" -> FilterStep(acc, result)
      [] loop = "nodes" -> NodeStep(acc, result)
      [] loop = "pods" -> PodStep(acc, result)
      [] loop = "warning_events" -> EventStep(acc, result)
      [] loop = "firing_alerts" -> AlertStep(acc, result)
      [] loop = "metric_data" -> UtilisationStep(acc, result)
      [] loop = "errors" -> GroupStep(acc, result)
      [] loop = "errors_by_service" -> PatternStep(acc, result)
      [] loop = "services" -> TraceStep(acc, result)
      [] loop = "findings" -> PlanStep(acc, result)

RECURSIVE ForEach(_, _, _, _, _)
ForEach(loop, results, lo, hi, acc) ==
    IF lo > hi THEN acc
    ELSE IF lo = hi THEN LoopBody(loop, acc, results[lo])
    ELSE LET mid == (lo + hi) \div 2
             half == ForEach(loop, results, lo, mid, acc)
         IN  IF Len(half) >= 0 THEN ForEach(loop, results, mid + 1, hi, half) ELSE half

----------------------------------------------------------------------------
(* The four adapters of the incident analyzer.  Each takes the answers of   *)
(* its upstream calls (Raise or Ok) and returns its list of findings; each  *)
(* wraps its whole body in "try ... except Exception: return {key: []}".    *)

(* A slice that keeps the whole list *)
PrefixAll(seq, n) == seq

(* seq[:n] *)
Prefix(seq, n) == IF Len(seq) > n THEN SubSeq(seq, 1, n) ELSE seq

(* An adapter that keeps the findings of the queries that succeeded *)
AnalyzeKubernetesStatePartial(r) ==
    LET IsWarning(e) == e.type = "Warning"
        warning_events == SelectSeq(r.events.res, IsWarning)
        first == Prefix(warning_events, 10)
        i1 == IF r.nodes.err THEN <<>>
              ELSE ForEach("nodes", r.nodes.res, 1, Len(r.nodes.res), <<>>)
        i2 == IF r.pods.err THEN i1 ELSE ForEach("pods", r.pods.res, 1, Len(r.pods.res), i1)
        i3 == IF r.events.err THEN i2 ELSE ForEach("warning_events", first, 1, Len(first), i2)
    IN  i3

(* _analyze_kubernetes_state: r = [nodes, pods, events] *)
AnalyzeKubernetesState(r) ==
    IF r.nodes.err \/ r.pods.err \/ r.events.err THEN <<>>
    ELSE LET IsWarning(e) == e.type = "Warning"
             warning_events == SelectSeq(r.events.res, IsWarning)
             first == Prefix(warning_events, 10)
             i1 == ForEach("nodes", r.nodes.res, 1, Len(r.nodes.res), <<>>)
             i2 == ForEach("pods", r.pods.res, 1, Len(r.pods.res), i1)
             i3 == ForEach("warning_events", first, 1, Len(first), i2)
         IN  i3

(* _analyze_metrics: r = [alerts, cluster]; each call has its own try, so   *)
(* one failing call leaves the findings of the other.  cluster.res is the   *)
(* "node_metrics" dict of get_cluster_metrics, iterated in insertion order. *)
AnalyzeMetrics(r) ==
    LET a1 == IF r.alerts.err THEN <<>>
              ELSE ForEach("firing_alerts", r.alerts.res, 1, Len(r.alerts.res),
                           <<<<>>, FALSE>>)[1]
        nm == r.cluster.res
        Tag(metric_type, metric_data) ==
            [i \in 1..Len(metric_data) |-> <<metric_type, metric_data[i]>>]
        items == Tag("cpu_usage", nm.cpu_usage) \o Tag("memory_usage", nm.memory_usage)
                   \o Tag("disk_usage", nm.disk_usage)
    IN  IF r.cluster.err THEN a1
        ELSE ForEach("metric_data", items, 1, Len(items), a1)

(* _analyze_logs: r = the answer of search_errors *)
AnalyzeLogs(r) ==
    IF r.err THEN <<>>
    ELSE LET errors_by_service == ForEach("errors", r.res, 1, Len(r.res), <<>>)
         IN  ForEach("errors_by_service", errors_by_service, 1, Len(errors_by_service), <<>>)

(* _analyze_traces: r = [services, latency]; latency[service] is the answer *)
(* of analyze_latency for that service                                      *)
AnalyzeTraces(r) ==
    IF r.services.err THEN <<>>
    ELSE LET first == Prefix(r.services.res, 5)
             items == [i \in 1..Len(first) |-> <<first[i], r.latency[first[i]]>>]
         IN  ForEach("services", items, 1, Len(items), <<>>)

(* A ranker that takes the last finding of the leading severity *)
DetermineRootCauseLast(findings) ==
    LET IsCritical(f) == Has(f, "severity") /\ f.severity = "critical"
        IsHigh(f) == Has(f, "severity") /\ f.severity = "high"
        critical_findings == SelectSeq(findings, IsCritical)
        high_findings == SelectSeq(findings, IsHigh)
    IN  IF findings = <<>>
        THEN [root_cause |-> <<"No issues detected">>, confidence |-> 10, severity |-> "info"]
        ELSE IF critical_findings # <<>>
        THEN [root_cause |-> critical_findings[Len(critical_findings)].description,
              confidence |-> 9, severity |-> "critical"]
        ELSE IF high_findings # <<>>
        THEN [root_cause |-> high_findings[Len(high_findings)].description,
              confidence |-> 7, severity |-> "high"]
        ELSE [root_cause |-> findings[Len(findings)].description, confidence |-> 5,
              severity |-> "medium"]

(* A ranker that reports the first finding's own severity when no finding   *)
(* is critical or high                                                      *)
DetermineRootCauseOwnSeverity(findings) ==
    LET IsCritical(f) == Has(f, "severity") /\ f.severity = "critical"
        IsHigh(f) == Has(f, "severity") /\ f.severity = "high"
        critical_findings == SelectSeq(findings, IsCritical)
        high_findings == SelectSeq(findings, IsHigh)
    IN  IF findings = <<>>
        THEN [root_cause |-> <<"No issues detected">>, confidence |-> 10, severity |-> "info"]
        ELSE IF critical_findings # <<>>
        THEN [root_cause |-> critical_findings[1].description, confidence |-> 9,
              severity |-> "critical"]
        ELSE IF high_findings # <<>>
        THEN [root_cause |-> high_findings[1].description, confidence |-> 7,
              severity |-> "high"]
        ELSE [root_cause |-> findings[1].description, confidence |-> 5,
              severity |-> findings[1].severity]

(* _determine_root_cause; the confidence is counted in tenths *)
DetermineRootCause(findings) ==
    LET IsCritical(f) == Has(f, "severity") /\ f.severity = "critical"
        IsHigh(f) == Has(f, "severity") /\ f.severity = "high"
        critical_findings == SelectSeq(findings, IsCritical)
        high_findings == SelectSeq(findings, IsHigh)
    IN  IF findings = <<>>
        THEN [root_cause |-> <<"No issues detected">>, confidence |-> 10, severity |-> "info"]
        ELSE IF critical_findings # <<>>
        THEN [root_cause |-> critical_findings[1].description, confidence |-> 9,
              severity |-> "critical"]
        ELSE IF high_findings # <<>>
        THEN [root_cause |-> high_findings[1].description, confidence |-> 7,
              severity |-> "high"]
        ELSE [root_cause |-> findings[1].description, confidence |-> 5,
              severity |-> "medium"]

(* sum(step["estimated_duration"] for step in steps) *)
RECURSIVE SumDurations(_, _)
SumDurations(steps, n) ==
    IF n = 0 THEN 0 ELSE SumDurations(steps, n - 1) + steps[n].estimated_duration

(* A plan derived from the last three findings *)
GenerateActionPlanLastThree(root_cause, findings) ==
    LET opening == << [step |-> 1, action |-> "Acknowledge the incident and assess impact",
                       estimated_duration |-> 5, critical |-> TRUE],
                      [step |-> 2, action |-> "Gather additional context and metrics",
                       estimated_duration |-> 10, critical |-> TRUE] >>
        first == IF Len(findings) > 3 THEN SubSeq(findings, Len(findings) - 2, Len(findings))
                 ELSE findings
        specific == ForEach("findings", first, 1, Len(first), opening)
        steps == Append(specific,
                        [step |-> Len(specific) + 1,
                         action |-> "Verify resolution and monitor system stability",
                         estimated_duration |-> 10, critical |-> TRUE])
        IsCriticalStep(step) == Get(step, "critical", FALSE)
    IN  [root_cause |-> root_cause,
         total_steps |-> Len(steps),
         estimated_total_duration |-> SumDurations(steps, Len(steps)),
         critical_steps |-> SelectSeq(steps, IsCriticalStep),
         steps |-> steps]

(* _generate_action_plan *)
GenerateActionPlan(root_cause, findings) ==
    LET opening == << [step |-> 1, action |-> "Acknowledge the incident and assess impact",
                       estimated_duration |-> 5, critical |-> TRUE],
                      [step |-> 2, action |-> "Gather additional context and metrics",
                       estimated_duration |-> 10, critical |-> TRUE] >>
        first == Prefix(findings, 3)
        specific == ForEach("findings", first, 1, Len(first), opening)
        steps == Append(specific,
                        [step |-> Len(specific) + 1,
                         action |-> "Verify resolution and monitor system stability",
                         estimated_duration |-> 10, critical |-> TRUE])
        IsCriticalStep(step) == Get(step, "critical", FALSE)
    IN  [root_cause |-> root_cause,
         total_steps |-> Len(steps),
         estimated_total_duration |-> SumDurations(steps, Len(steps)),
         critical_steps |-> SelectSeq(steps, IsCriticalStep),
         steps |-> steps]

----------------------------------------------------------------------------
(* _collect_cluster_metrics: four independent queries, each in its own      *)
(* try/except; a query that raises or returns no result leaves its keys     *)
(* out of the dict.  r = [cpu, mem, pods, nodes], each an upstream response *)

CountReady(nodes) == Cardinality({i \in 1..Len(nodes) : nodes[i] = "Ready"})

CollectClusterMetrics(r) ==
    LET m0 == EmptyDict
        m1 == IF ~r.cpu.err /\ r.cpu.res # <<>>
              THEN Put(m0, "cpu_usage_percent", r.cpu.res[1]) ELSE m0
        m2 == IF ~r.mem.err /\ r.mem.res # <<>>
              THEN Put(m1, "memory_usage_percent", r.mem.res[1]) ELSE m1
        m3 == IF ~r.pods.err /\ r.pods.res # <<>>
              THEN Put(m2, "total_pods", r.pods.res[1]) ELSE m2
        m4 == IF ~r.nodes.err
              THEN Put(Put(m3, "total_nodes", Len(r.nodes.res)),
                       "ready_nodes", CountReady(r.nodes.res))
              ELSE m3
    IN  m4

(* Whether some upstream query of the cluster section raised *)
ClusterQueryFailed(r) == r.cpu.err \/ r.mem.err \/ r.pods.err \/ r.nodes.err

(* _collect_node_metrics: r = [cpu, mem, disk]; the three queries share one *)
(* try/except, so one failing query gives {}                                *)
CollectNodeMetrics(r) ==
    IF r.cpu.err \/ r.mem.err \/ r.disk.err THEN <<>>
    ELSE LET n1 == ForEach("node_cpu", r.cpu.res, 1, Len(r.cpu.res), <<>>)
             n2 == ForEach("node_memory", r.mem.res, 1, Len(r.mem.res), n1)
             n3 == ForEach("node_disk", r.disk.res, 1, Len(r.disk.res), n2)
         IN  n3

NodeQueryFailed(r) == r.cpu.err \/ r.mem.err \/ r.disk.err

(* _collect_pod_metrics: r = [cpu, mem]; a result is [pod, namespace,       *)
(* value], 0 standing for a missing label; the key is namespace/pod         *)
CollectPodMetrics(r) ==
    IF r.cpu.err \/ r.mem.err THEN <<>>
    ELSE LET p1 == ForEach("pod_cpu", r.cpu.res, 1, Len(r.cpu.res), <<>>)
             p2 == ForEach("pod_memory", r.mem.res, 1, Len(r.mem.res), p1)
         IN  p2

PodQueryFailed(r) == r.cpu.err \/ r.mem.err

----------------------------------------------------------------------------
(* _detect_anomalies *)

SectionMetrics(store, section, default) ==    \* store.get(section, {}).get("metrics", {})
    IF Has(store, section) THEN store[section].metrics ELSE default

(* Cluster checks whose severity grows with the time of classification *)
ClusterAnomaliesEscalating(cm, current_time) ==
    LET severity == IF current_time > Retention THEN "critical" ELSE "high"
    IN  (IF Get(cm, "cpu_usage_percent", 0) > ClusterCpuLimit
         THEN << [type |-> "high_cluster_cpu", severity |-> severity, metric |-> "cluster_cpu_usage",
                  value |-> cm["cpu_usage_percent"], threshold |-> ClusterCpuLimit,
                  timestamp |-> current_time] >>
         ELSE <<>>)
        \o
        (IF Get(cm, "memory_usage_percent", 0) > ClusterMemLimit
         THEN << [type |-> "high_cluster_memory", severity |-> severity, metric |-> "cluster_memory_usage",
                  value |-> cm["memory_usage_percent"], threshold |-> ClusterMemLimit,
                  timestamp |-> current_time] >>
         ELSE <<>>)

(* _detect_anomalies: the cluster checks *)
ClusterAnomalies(cm, current_time) ==
    (IF Get(cm, "cpu_usage_percent", 0) > ClusterCpuLimit
     THEN << [type |-> "high_cluster_cpu", severity |-> "high", metric |-> "cluster_cpu_usage",
              value |-> cm["cpu_usage_percent"], threshold |-> ClusterCpuLimit,
              timestamp |-> current_time] >>
     ELSE <<>>)
    \o
    (IF Get(cm, "memory_usage_percent", 0) > ClusterMemLimit
     THEN << [type |-> "high_cluster_memory", severity |-> "high", metric |-> "cluster_memory_usage",
              value |-> cm["memory_usage_percent"], threshold |-> ClusterMemLimit,
              timestamp |-> current_time] >>
     ELSE <<>>)

NodeAnomalies(nm, current_time) ==
    ForEach("node_anomalies", [i \in 1..Len(nm) |-> <<nm[i][1], nm[i][2], current_time>>],
            1, Len(nm), <<>>)

(* The anomalies one call of _detect_anomalies finds in the store *)
DetectedAnomalies(store, current_time) ==
    ClusterAnomalies(SectionMetrics(store, "cluster", EmptyDict), current_time)
    \o NodeAnomalies(SectionMetrics(store, "nodes", <<>>), current_time)

(* self._anomalies[:100]: keeps the oldest entries *)
KeepFirst(log, n) ==
    IF Len(log) > n THEN SubSeq(log, 1, n) ELSE log

(* self._anomalies[-100:] *)
KeepLast(log, n) ==
    IF Len(log) > n THEN SubSeq(log, Len(log) - n + 1, Len(log)) ELSE log

(* "Update anomalies list" and "Keep only last 100 anomalies" *)
UpdateAnomalies(log, found) ==
    IF Len(log \o found) > MaxAnomalies THEN KeepLast(log \o found, MaxAnomalies)
    ELSE log \o found

(* A tick that evicts nothing *)
CleanNothing(store, current_time) == store

(* _clean_old_metrics *)
CleanOldMetrics(store, current_time) ==
    LET cutoff_time == current_time - Retention
        keep == {k \in DOMAIN store : ~(store[k].timestamp < cutoff_time)}
    IN  [k \in keep |-> store[k]]

----------------------------------------------------------------------------
(* The read queries *)

(* A health score that takes absent node counts for equal *)
HealthScoreNodesAssumedReady(cluster_metrics) ==
    LET s0 == 100
        s1 == IF Get(cluster_metrics, "cpu_usage_percent", 0) > ClusterCpuLimit THEN s0 - 20 ELSE s0
        s2 == IF Get(cluster_metrics, "memory_usage_percent", 0) > ClusterMemLimit THEN s1 - 20 ELSE s1
        s3 == IF Get(cluster_metrics, "ready_nodes", 0) < Get(cluster_metrics, "total_nodes", 0)
              THEN s2 - 30 ELSE s2
    IN  IF s3 < 0 THEN 0 ELSE s3

(* A health score whose comparisons are not strict *)
HealthScoreLax(cluster_metrics) ==
    LET s0 == 100
        s1 == IF Get(cluster_metrics, "cpu_usage_percent", 0) >= ClusterCpuLimit THEN s0 - 20 ELSE s0
        s2 == IF Get(cluster_metrics, "memory_usage_percent", 0) >= ClusterMemLimit THEN s1 - 20 ELSE s1
        s3 == IF Get(cluster_metrics, "ready_nodes", 0) <= Get(cluster_metrics, "total_nodes", 1)
              THEN s2 - 30 ELSE s2
    IN  IF s3 < 0 THEN 0 ELSE s3

(* get_metrics_summary; a float quotient x / 60 is kept as <<x, 60>> *)
HealthScore(cluster_metrics) ==
    LET s0 == 100
        s1 == IF Get(cluster_metrics, "cpu_usage_percent", 0) > ClusterCpuLimit THEN s0 - 20 ELSE s0
        s2 == IF Get(cluster_metrics, "memory_usage_percent", 0) > ClusterMemLimit THEN s1 - 20 ELSE s1
        s3 == IF Get(cluster_metrics, "ready_nodes", 0) < Get(cluster_metrics, "total_nodes", 1)
              THEN s2 - 30 ELSE s2
    IN  IF s3 < 0 THEN 0 ELSE s3

Max(S) == CHOOSE x \in S : \A y \in S : y <= x

(* _get_metrics_age_minutes *)
MetricsAgeMinutes(store, current_time) ==
    IF DOMAIN store = {} THEN <<0, 1>>
    ELSE <<current_time - Max({store[k].timestamp : k \in DOMAIN store}), 60>>

RecentAnomalies(log, current_time) ==
    Cardinality({i \in 1..Len(log) : log[i].timestamp > current_time - Recent})

GetMetricsSummary(store, log, current_time) ==
    LET cluster_metrics == SectionMetrics(store, "cluster", EmptyDict)
        node_metrics == SectionMetrics(store, "nodes", <<>>)
        pod_metrics == SectionMetrics(store, "pods", <<>>)
    IN  [timestamp |-> current_time,
         cluster_health_score |-> HealthScore(cluster_metrics),
         cluster_metrics |-> cluster_metrics,
         node_count |-> Len(node_metrics),
         pod_count |-> Len(pod_metrics),
         recent_anomalies |-> RecentAnomalies(log, current_time),
         metrics_age_minutes |-> MetricsAgeMinutes(store, current_time)]

(* The hours between datetime.min (year 1) and the instant the model's      *)
(* clock reads 0                                                            *)
OriginHours == 17758170

(* "datetime.utcnow() - timedelta(hours=last_hours)" raises OverflowError   *)
(* when the result would lie before datetime.min                            *)
CutoffOverflows(last_hours, current_time) ==
    last_hours > OriginHours + current_time \div 3600

(* get_anomalies(last_hours); "except Exception: return []" *)
GetAnomaliesResult(log, last_hours, current_time) ==
    IF CutoffOverflows(last_hours, current_time) THEN <<>>
    ELSE LET cutoff_time == current_time - last_hours * 3600
         IN  ForEach("recent_anomalies", [i \in 1..Len(log) |-> <<log[i], cutoff_time>>],
                     1, Len(log), <<>>)

----------------------------------------------------------------------------
(* The asyncio tasks running _collect_metrics_loop.                         *)
(* pc: "none"      no such task yet                                         *)
(*     "created"   create_task() was called, the coroutine has not started  *)
(*     "q_cluster" in _collect_all_metrics, awaiting _collect_cluster_metrics *)
(*     "q_nodes"   "cluster" is written, awaiting _collect_node_metrics     *)
(*     "q_pods"    "nodes" is written, awaiting _collect_pod_metrics        *)
(*     "sleeping"  in asyncio.sleep                                         *)
(*     "finished"  the while loop ended;  "cancelled"  CancelledError left it *)

NoTask == [pc |-> "none", cancel |-> FALSE, timestamp |-> 0, failed |-> FALSE,
           sleep |-> 0, wake_at |-> 0]

Done == {"finished", "cancelled"}
Alive == {"created", "q_cluster", "q_nodes", "q_pods", "sleeping"}

(* Upstream clients that really suspend in their network calls *)
YieldsInQueries(pc) == pc \in {"created", "sleeping", "q_cluster", "q_nodes", "q_pods"}

(* Whether the await a task stands at gives the event loop to other         *)
(* coroutines.  asyncio.sleep does.  PrometheusClient.query and             *)
(* KubernetesClient.get_nodes are "async def" bodies that make blocking     *)
(* calls and contain no await, so awaiting them never suspends the task.    *)
Yields(pc) == pc \in {"created", "sleeping"}

(* Who holds the event loop once task t has reached pc *)
Holder(pc, t) == IF Yields(pc) THEN 0 ELSE t

(* "while not self._is_running" *)
LoopCondNegated(flag) == ~flag

(* "while self._is_running" *)
LoopCond(flag) == flag

(* Whether _collect_all_metrics raises into the loop: every helper catches  *)
(* Exception itself, and so does _collect_all_metrics.                      *)
CollectAllRaises(failed) == FALSE

(* The sleep the loop takes after a tick: 60 in the try body, 30 in the     *)
(* except branch                                                            *)
SleepAfter(raised) == IF raised THEN SleepRetry ELSE SleepNormal

(* No call of analyze_incident is in progress *)
NoAnalysis == [pc |-> "idle"]

(* MetricsCollector.__init__ *)
CollectorIdle ==
    /\ is_running = FALSE
    /\ collection_task = 0
    /\ collected_metrics = EmptyDict
    /\ anomalies = <<>>
    /\ task = [t \in Tasks |-> NoTask]
    /\ running = 0
    /\ ctl = "idle"
    /\ now = 0
    /\ stop_raised = FALSE
    /\ appended = <<>>
    /\ tick_end = -1
    /\ last_op = "none"
    /\ summary = <<>>
    /\ prev_summary = <<>>
    /\ fresh = FALSE
    /\ untouched = FALSE
    /\ anomaly_result = <<>>
    /\ stable = <<EmptyDict, <<>>>>
    /\ torn = FALSE

(* metrics_collector = MetricsCollector() of app/api/routers.py: a second   *)
(* instance, whose start() is never called; request is the request last    *)
(* served, <<route, hours, time>>                                           *)
RouterCollector ==
    [is_running |-> FALSE, collection_task |-> 0, collected_metrics |-> EmptyDict,
     anomalies |-> <<>>, summary |-> <<>>, anomaly_result |-> <<>>,
     request |-> <<"none", 0, 0>>]

(* No call of check_kubernetes_cluster_health is in progress *)
NoCheck == [pc |-> "idle"]

InitCollector ==
    /\ CollectorIdle
    /\ analysis = NoAnalysis /\ router = RouterCollector /\ second = NoAnalysis
    /\ health = NoCheck

lifecycle_vars == <<is_running, collection_task, ctl, stop_raised, last_op>>
query_vars == <<summary, prev_summary, untouched, anomaly_result, torn>>
store_vars == <<collected_metrics, anomalies, appended, tick_end, stable>>

(* The loop starts, or wakes from its sleep, and tests the while condition; *)
(* if it holds, _collect_all_metrics takes the timestamp and calls          *)
(* _collect_cluster_metrics.                                                *)
LoopIter(t) ==
    /\ running = 0
    /\ ~task[t].cancel
    /\ \/ task[t].pc = "created"
       \/ task[t].pc = "sleeping" /\ now >= task[t].wake_at
    /\ IF LoopCond(is_running)
       THEN /\ task' = [task EXCEPT ![t].pc = "q_cluster", ![t].timestamp = now,
                                    ![t].failed = FALSE]
            /\ running' = Holder("q_cluster", t)
       ELSE /\ task' = [task EXCEPT ![t].pc = "finished"]
            /\ running' = 0
    /\ UNCHANGED <<lifecycle_vars, query_vars, store_vars, fresh, now, inputs, request_vars>>

(* _collect_cluster_metrics returns; self._collected_metrics["cluster"] is  *)
(* assigned; _collect_node_metrics is called.                               *)
CollectCluster(t) ==
    /\ task[t].pc = "q_cluster"
    /\ running = Holder("q_cluster", t)
    /\ ~(task[t].cancel /\ running = 0)
    /\ \E r \in inputs.cluster :
          /\ collected_metrics' = Put(collected_metrics, "cluster",
                 [timestamp |-> task[t].timestamp, metrics |-> CollectClusterMetrics(r)])
          /\ task' = [task EXCEPT ![t].pc = "q_nodes",
                                  ![t].failed = @ \/ ClusterQueryFailed(r)]
    /\ running' = Holder("q_nodes", t)
    /\ fresh' = FALSE
    /\ UNCHANGED <<lifecycle_vars, query_vars, anomalies, appended, tick_end, stable, now, inputs, request_vars>>

(* _collect_node_metrics returns; self._collected_metrics["nodes"] is       *)
(* assigned; _collect_pod_metrics is called.                                *)
CollectNodes(t) ==
    /\ task[t].pc = "q_nodes"
    /\ running = Holder("q_nodes", t)
    /\ ~(task[t].cancel /\ running = 0)
    /\ \E r \in inputs.nodes :
          /\ collected_metrics' = Put(collected_metrics, "nodes",
                 [timestamp |-> task[t].timestamp, metrics |-> CollectNodeMetrics(r)])
          /\ task' = [task EXCEPT ![t].pc = "q_pods",
                                  ![t].failed = @ \/ NodeQueryFailed(r)]
    /\ running' = Holder("q_pods", t)
    /\ fresh' = FALSE
    /\ UNCHANGED <<lifecycle_vars, query_vars, anomalies, appended, tick_end, stable, now, inputs, request_vars>>

(* _collect_pod_metrics returns; self._collected_metrics["pods"] is         *)
(* assigned; _detect_anomalies and _clean_old_metrics run;                  *)
(* _collect_all_metrics returns and the loop goes to sleep.                 *)
CollectPods(t) ==
    /\ task[t].pc = "q_pods"
    /\ running = Holder("q_pods", t)
    /\ ~(task[t].cancel /\ running = 0)
    /\ \E r \in inputs.pods :
          LET written == Put(collected_metrics, "pods",
                             [timestamp |-> task[t].timestamp, metrics |-> CollectPodMetrics(r)])
              found == DetectedAnomalies(written, now)
              log == UpdateAnomalies(anomalies, found)
              cleaned == CleanOldMetrics(written, now)
              failed == task[t].failed \/ PodQueryFailed(r)
              sleep == SleepAfter(CollectAllRaises(failed))
          IN  /\ collected_metrics' = cleaned
              /\ anomalies' = log
              /\ appended' = appended \o found
              /\ stable' = <<cleaned, log>>
              /\ task' = [task EXCEPT ![t].pc = "sleeping", ![t].failed = failed,
                                      ![t].sleep = sleep, ![t].wake_at = now + sleep]
    /\ tick_end' = now
    /\ running' = Holder("sleeping", t)
    /\ fresh' = FALSE
    /\ UNCHANGED <<lifecycle_vars, query_vars, now, inputs, request_vars>>

(* task.cancel() takes effect: CancelledError is thrown into the coroutine  *)
(* at the await it is suspended in (or the task never starts); no handler   *)
(* of the loop catches it.                                                  *)
DeliverCancel(t) ==
    /\ running = 0
    /\ task[t].cancel
    /\ task[t].pc \in Alive
    /\ task' = [task EXCEPT ![t].pc = "cancelled"]
    /\ UNCHANGED <<lifecycle_vars, query_vars, store_vars, fresh, running, now, inputs, request_vars>>

----------------------------------------------------------------------------
(* The lifecycle: start() and stop() *)

(* start(): sets the flag and creates a task, whatever the state *)
Start ==
    /\ ctl = "idle"
    /\ running = 0
    /\ \E t \in Tasks :
          /\ task[t].pc = "none"
          /\ \A u \in 1..(t - 1) : task[u].pc # "none"
          /\ task' = [task EXCEPT ![t].pc = "created"]
          /\ collection_task' = t
    /\ is_running' = TRUE
    /\ last_op' = "start"
    /\ UNCHANGED <<ctl, stop_raised, query_vars, store_vars, fresh, running, now, inputs, request_vars>>

(* stop() without the test for a task *)
StopGuardAlways(ct) == TRUE

(* stop() that never cancels the task *)
StopGuardNever(ct) == FALSE

(* "if self._collection_task" *)
StopGuard(ct) == ct # 0

(* stop(): clears the flag; cancels and awaits the task start() stored      *)
(* last.  Awaiting a task that is already done does not suspend, and the    *)
(* CancelledError of a cancelled task is caught.                            *)
Stop ==
    /\ ctl = "idle"
    /\ running = 0
    /\ is_running' = FALSE
    /\ IF StopGuard(collection_task)
       THEN IF collection_task = 0
            THEN \* None.cancel(): AttributeError
                 /\ stop_raised' = TRUE
                 /\ UNCHANGED <<task, ctl, last_op>>
            ELSE IF task[collection_task].pc \in Done
            THEN /\ last_op' = "stop"
                 /\ UNCHANGED <<task, ctl, stop_raised>>
            ELSE /\ task' = [task EXCEPT ![collection_task].cancel = TRUE]
                 /\ ctl' = "stopping"
                 /\ UNCHANGED <<last_op, stop_raised>>
       ELSE /\ last_op' = "stop"
            /\ UNCHANGED <<task, ctl, stop_raised>>
    /\ UNCHANGED <<collection_task, query_vars, store_vars, fresh, running, now, inputs, request_vars>>

(* "await self._collection_task" returns once the task is done *)
StopReturn ==
    /\ ctl = "stopping"
    /\ running = 0
    /\ task[collection_task].pc \in Done
    /\ ctl' = "idle"
    /\ last_op' = "stop"
    /\ UNCHANGED <<is_running, collection_task, stop_raised, task, query_vars, store_vars,
                   fresh, running, now, inputs, request_vars>>

----------------------------------------------------------------------------
(* Requests served on the same event loop *)

(* Whether a query that runs now reads inside a tick *)
ReadsTorn == <<collected_metrics, anomalies>> # stable \/ Len(anomalies) > MaxAnomalies

(* get_metrics_summary that evicts old sections before it reads *)
GetSummaryCleaning ==
    /\ running = 0
    /\ collected_metrics' = CleanOldMetrics(collected_metrics, now)
    /\ summary' = GetMetricsSummary(collected_metrics', anomalies, now)
    /\ prev_summary' = summary
    /\ untouched' = fresh
    /\ fresh' = TRUE
    /\ torn' = (torn \/ ReadsTorn)
    /\ UNCHANGED <<lifecycle_vars, anomalies, appended, tick_end, stable, task, anomaly_result,
                   running, now, inputs, request_vars>>

GetSummary ==
    /\ running = 0
    /\ summary' = GetMetricsSummary(collected_metrics, anomalies, now)
    /\ prev_summary' = summary
    /\ untouched' = fresh
    /\ fresh' = TRUE
    /\ torn' = (torn \/ ReadsTorn)
    /\ UNCHANGED <<lifecycle_vars, store_vars, task, anomaly_result, running, now, inputs, request_vars>>

(* "hours: int = 24": any integer the request gives; the last one reaches   *)
(* back beyond datetime.min                                                 *)
WindowHours == {1, 6, OriginHours + MaxTime}

(* get_anomalies that keeps only what it returns *)
GetAnomaliesPruning(last_hours) ==
    /\ running = 0
    /\ anomaly_result' = GetAnomaliesResult(anomalies, last_hours, now)
    /\ anomalies' = anomaly_result'
    /\ torn' = (torn \/ ReadsTorn)
    /\ UNCHANGED <<lifecycle_vars, collected_metrics, appended, tick_end, stable, task, summary,
                   prev_summary, untouched, fresh, running, now, inputs, request_vars>>

GetAnomalies(last_hours) ==
    /\ running = 0
    /\ anomaly_result' = GetAnomaliesResult(anomalies, last_hours, now)
    /\ torn' = (torn \/ ReadsTorn)
    /\ UNCHANGED <<lifecycle_vars, store_vars, task, summary, prev_summary, untouched, fresh,
                   running, now, inputs, request_vars>>

(* GET /metrics/collector/summary and GET /metrics/anomalies: the routes    *)
(* call the collector of app/api/routers.py                                 *)
GetCollectorSummary ==
    /\ running = 0
    /\ router' = [router EXCEPT
                     !.summary = GetMetricsSummary(router.collected_metrics, router.anomalies, now),
                     !.request = <<"summary", 0, now>>]
    /\ UNCHANGED <<collector_vars, analysis, second, health>>

RouteGetAnomalies(hours) ==
    /\ running = 0
    /\ router' = [router EXCEPT
                     !.anomaly_result = GetAnomaliesResult(router.anomalies, hours, now),
                     !.request = <<"anomalies", hours, now>>]
    /\ UNCHANGED <<collector_vars, analysis, second, health>>

(* Time passes, also while a task blocks the loop in an upstream call *)
Clock ==
    /\ \E d \in ClockSteps :
          /\ now + d <= MaxTime
          /\ now' = now + d
    /\ UNCHANGED <<lifecycle_vars, query_vars, store_vars, task, fresh, running, inputs, request_vars>>

----------------------------------------------------------------------------
(* IncidentAnalyzer.analyze_incident.  The analysis record holds the call's *)
(* position and its "analysis" dict:                                        *)
(* pc: "idle"        no call in progress                                    *)
(*     "kubernetes"  awaiting _analyze_kubernetes_state                     *)
(*     "metrics"     step 1 recorded, awaiting _analyze_metrics             *)
(*     "logs"        step 2 recorded, awaiting _analyze_logs                *)
(*     "traces"      step 3 recorded, awaiting _analyze_traces              *)
(*     "rank"        step 4 recorded, calling _determine_root_cause         *)
(*     "plan"        calling _generate_action_plan                          *)
(*     "done"        the analysis is returned;  "raised"  the call raised   *)
(* upstream is what the four sources hold during the call, answers what     *)
(* each adapter was answered (its calls may raise).  The symptoms argument  *)
(* is only echoed into the result and is left out.                          *)

(* Which upstream calls of an adapter raise: from the named call on *)
KubernetesModes == {"none", "nodes", "pods", "events"}
MetricsModes == {"none", "alerts", "cluster", "both"}
LogsModes == {"none", "search"}
TracesModes == {"none", "services", "latency"}

(* KubernetesClient.get_pods: "status" is the pod's phase, "restarts" the   *)
(* sum of its containers' restart counts; the state of the containers       *)
(* (waiting with reason CrashLoopBackOff) stays in container_statuses.      *)
GetPods(pods) ==
    Ok([i \in 1..Len(pods) |->
          [name |-> pods[i].name, namespace |-> pods[i].namespace,
           status |-> pods[i].phase, restarts |-> pods[i].restarts,
           container_statuses |-> <<[state |-> pods[i].waiting]>>]])

KubernetesAnswers(data, mode) ==
    [nodes |-> IF mode = "nodes" THEN Raise ELSE data.nodes,
     pods |-> IF mode \in {"nodes", "pods"} THEN Raise ELSE GetPods(data.pods),
     events |-> IF mode # "none" THEN Raise ELSE data.events]

MetricsAnswers(data, mode) ==
    [alerts |-> IF mode \in {"alerts", "both"} THEN Raise ELSE data.alerts,
     cluster |-> IF mode \in {"cluster", "both"} THEN Raise ELSE data.cluster]

LogsAnswers(data, mode) == IF mode = "search" THEN Raise ELSE data

NoAnswer == [err |-> TRUE, empty |-> FALSE, error_traces |-> 0, total_traces |-> 0, p95 |-> 0]

TracesAnswers(data, mode) ==
    [services |-> IF mode = "services" THEN Raise ELSE data.services,
     latency |-> IF mode = "none" THEN data.latency
                 ELSE [service \in DOMAIN data.latency |-> NoAnswer]]

(* An adapter that lets the exception of its upstream call escape *)
AdapterPropagates(failed) == failed

(* Whether an adapter raises into analyze_incident when an upstream call    *)
(* of its raised: each adapter catches Exception and returns an empty list. *)
AdapterRaises(failed) == FALSE

(* findings.extend at the front *)
MergeInFront(findings, contribution) == contribution \o findings

(* analysis["findings"].extend(contribution) *)
Merge(findings, contribution) == findings \o contribution

(* analysis["analysis_steps"].append(...); analysis["findings"].extend(...) *)
Recorded(an, name, contribution, answer, next) ==
    [an EXCEPT !.analysis_steps = Append(@, [step |-> name, status |-> "completed",
                                             findings |-> contribution]),
               !.findings = Merge(@, contribution),
               !.answers = Append(@, answer),
               !.pc = next]

(* An analysis dict kept by the analyzer and used again by the next call *)
NewAnalysisReused(upstream, current_time, peer) ==
    [pc |-> "kubernetes", upstream |-> upstream, answers |-> <<>>,
     timestamp |-> current_time, analysis_steps |-> <<>>,
     findings |-> IF peer.pc = "idle" THEN <<>> ELSE peer.findings,
     root_cause |-> <<None>>, confidence |-> 0, severity |-> None, action_plan |-> <<>>]

(* "analysis = {...}": a dict local to the call, which holds nothing of the *)
(* dict of any other call (peer)                                            *)
NewAnalysis(upstream, current_time, peer) ==
    [pc |-> "kubernetes", upstream |-> upstream, answers |-> <<>>,
     timestamp |-> current_time, analysis_steps |-> <<>>, findings |-> <<>>,
     root_cause |-> <<None>>, confidence |-> 0, severity |-> None, action_plan |-> <<>>]

(* analyze_incident is called: the analysis dict is created and            *)
(* _analyze_kubernetes_state is awaited.                                    *)
AnalyzeIncident ==
    /\ analysis.pc = "idle"
    /\ \E upstream \in inputs.worlds :
          analysis' = NewAnalysis(upstream, now, second)
    /\ UNCHANGED <<collector_vars, router, second, health>>

(* "Step 1: Check Kubernetes resources" *)
KubernetesStep ==
    /\ analysis.pc = "kubernetes"
    /\ \E mode \in KubernetesModes :
          LET r == KubernetesAnswers(analysis.upstream.kubernetes, mode)
          IN  analysis' = IF AdapterRaises(mode # "none")
                          THEN [analysis EXCEPT !.pc = "raised"]
                          ELSE Recorded(analysis, "kubernetes_analysis",
                                        AnalyzeKubernetesState(r), r, "metrics")
    /\ UNCHANGED <<collector_vars, router, second, health>>

(* "Step 2: Check metrics and alerts" *)
MetricsStep ==
    /\ analysis.pc = "metrics"
    /\ \E mode \in MetricsModes :
          LET r == MetricsAnswers(analysis.upstream.metrics, mode)
          IN  analysis' = IF AdapterRaises(mode # "none")
                          THEN [analysis EXCEPT !.pc = "raised"]
                          ELSE Recorded(analysis, "metrics_analysis", AnalyzeMetrics(r), r, "logs")
    /\ UNCHANGED <<collector_vars, router, second, health>>

(* "Step 3: Check logs for errors" *)
LogsStep ==
    /\ analysis.pc = "logs"
    /\ \E mode \in LogsModes :
          LET r == LogsAnswers(analysis.upstream.logs, mode)
          IN  analysis' = IF AdapterRaises(mode # "none")
                          THEN [analysis EXCEPT !.pc = "raised"]
                          ELSE Recorded(analysis, "logs_analysis", AnalyzeLogs(r), r, "traces")
    /\ UNCHANGED <<collector_vars, router, second, health>>

(* "Step 4: Analyze traces for performance issues" *)
TracesStep ==
    /\ analysis.pc = "traces"
    /\ \E mode \in TracesModes :
          LET r == TracesAnswers(analysis.upstream.traces, mode)
          IN  analysis' = IF AdapterRaises(mode # "none")
                          THEN [analysis EXCEPT !.pc = "raised"]
                          ELSE Recorded(analysis, "traces_analysis", AnalyzeTraces(r), r, "rank")
    /\ UNCHANGED <<collector_vars, router, second, health>>

(* "Determine root cause" *)
RootCauseStep ==
    /\ analysis.pc = "rank"
    /\ LET root_cause_analysis == DetermineRootCause(analysis.findings)
       IN  analysis' = [analysis EXCEPT !.root_cause = root_cause_analysis.root_cause,
                                        !.confidence = root_cause_analysis.confidence,
                                        !.severity = root_cause_analysis.severity,
                                        !.pc = "plan"]
    /\ UNCHANGED <<collector_vars, router, second, health>>

(* "Generate action plan"; "return analysis" *)
ActionPlanStep ==
    /\ analysis.pc = "plan"
    /\ analysis' = [analysis EXCEPT
                       !.action_plan = GenerateActionPlan(analysis.root_cause, analysis.findings),
                       !.pc = "done"]
    /\ UNCHANGED <<collector_vars, router, second, health>>

(* The event loop suspends the running call of analyze_incident and runs    *)
(* the other one                                                            *)
Switch ==
    /\ analysis # second
    /\ analysis' = second
    /\ second' = analysis
    /\ UNCHANGED <<collector_vars, router, health>>

(* HealthCheckService.check_kubernetes_cluster_health.  The health record   *)
(* holds the call's position (pc: "nodes", "pods", "info" while the call    *)
(* awaits get_nodes, get_pods, get_cluster_info; "done" once it returned),  *)
(* the cluster it looks at, the answers it got and its health_info dict;    *)
(* f"{n} nodes not ready" is the pair <<n, "nodes not ready">>.             *)

(* A pods check that leaves a worse overall status standing *)
PodsCheckedWorst(h, answer) ==
    IF answer.err
    THEN [h EXCEPT !.components = Put(@, "pods", [status |-> "unhealthy", error |-> TRUE]),
                   !.overall_status = "unhealthy",
                   !.answers = Put(@, "pods", answer),
                   !.pc = "info"]
    ELSE LET pods == answer.res
             IsRunning(p) == p.status = "Running"
             IsFailed(p) == p.status \in {"CrashLoopBackOff", "Error", "Failed"}
             running_pods == SelectSeq(pods, IsRunning)
             failed_pods == SelectSeq(pods, IsFailed)
         IN  [h EXCEPT !.components =
                           Put(@, "pods",
                               [status |-> IF failed_pods = <<>> THEN "healthy" ELSE "degraded",
                                running |-> Len(running_pods), failed |-> Len(failed_pods),
                                total |-> Len(pods)]),
                       !.overall_status = IF failed_pods # <<>> /\ @ # "unhealthy"
                                          THEN "degraded" ELSE @,
                       !.issues = IF failed_pods # <<>>
                                  THEN Append(@, <<Len(failed_pods), "pods in failed state">>)
                                  ELSE @,
                       !.answers = Put(@, "pods", answer),
                       !.pc = "info"]

(* "Check pods": answer is what get_pods gave *)
PodsChecked(h, answer) ==
    IF answer.err
    THEN [h EXCEPT !.components = Put(@, "pods", [status |-> "unhealthy", error |-> TRUE]),
                   !.overall_status = "unhealthy",
                   !.answers = Put(@, "pods", answer),
                   !.pc = "info"]
    ELSE LET pods == answer.res
             IsRunning(p) == p.status = "Running"
             IsFailed(p) == p.status \in {"CrashLoopBackOff", "Error", "Failed"}
             running_pods == SelectSeq(pods, IsRunning)
             failed_pods == SelectSeq(pods, IsFailed)
         IN  [h EXCEPT !.components =
                           Put(@, "pods",
                               [status |-> IF failed_pods = <<>> THEN "healthy" ELSE "degraded",
                                running |-> Len(running_pods), failed |-> Len(failed_pods),
                                total |-> Len(pods)]),
                       !.overall_status = IF failed_pods # <<>> THEN "degraded" ELSE @,
                       !.issues = IF failed_pods # <<>>
                                  THEN Append(@, <<Len(failed_pods), "pods in failed state">>)
                                  ELSE @,
                       !.answers = Put(@, "pods", answer),
                       !.pc = "info"]

(* "Check nodes": answer is what get_nodes gave *)
NodesChecked(h, answer) ==
    IF answer.err
    THEN [h EXCEPT !.components = Put(@, "nodes", [status |-> "unhealthy", error |-> TRUE]),
                   !.overall_status = "unhealthy",
                   !.answers = Put(@, "nodes", answer),
                   !.pc = "pods"]
    ELSE LET nodes == answer.res
             IsReady(n) == n.status = "Ready"
             ready_nodes == SelectSeq(nodes, IsReady)
         IN  [h EXCEPT !.components =
                           Put(@, "nodes",
                               [status |-> IF Len(ready_nodes) = Len(nodes) THEN "healthy"
                                           ELSE "unhealthy",
                                ready |-> Len(ready_nodes), total |-> Len(nodes)]),
                       !.overall_status = IF Len(ready_nodes) < Len(nodes) THEN "degraded" ELSE @,
                       !.issues = IF Len(ready_nodes) < Len(nodes)
                                  THEN Append(@, <<Len(nodes) - Len(ready_nodes), "nodes not ready">>)
                                  ELSE @,
                       !.answers = Put(@, "nodes", answer),
                       !.pc = "pods"]

(* check_kubernetes_cluster_health is called: health_info is created and   *)
(* get_nodes is awaited.                                                    *)
CheckKubernetesClusterHealth ==
    /\ health.pc = "idle"
    /\ \E upstream \in inputs.worlds :
          health' = [pc |-> "nodes", upstream |-> upstream.kubernetes, answers |-> EmptyDict,
                     timestamp |-> now, components |-> EmptyDict,
                     overall_status |-> "healthy", issues |-> <<>>, cluster_info |-> None]
    /\ UNCHANGED <<collector_vars, analysis, router, second>>

NodesCheck ==
    /\ health.pc = "nodes"
    /\ \E answer \in {Raise, health.upstream.nodes} :
          health' = NodesChecked(health, answer)
    /\ UNCHANGED <<collector_vars, analysis, router, second>>

PodsCheck ==
    /\ health.pc = "pods"
    /\ \E answer \in {Raise, GetPods(health.upstream.pods)} :
          health' = PodsChecked(health, answer)
    /\ UNCHANGED <<collector_vars, analysis, router, second>>

(* "Check cluster version"; "return health_info" *)
ClusterInfoCheck ==
    /\ health.pc = "info"
    /\ \E cluster_info \in {"error", "info"} :
          health' = [health EXCEPT !.cluster_info = cluster_info, !.pc = "done"]
    /\ UNCHANGED <<collector_vars, analysis, router, second>>

(* The adapters analyze_incident has invoked by the time it stands at pc *)
Invoked(pc) ==
    CASE pc = "kubernetes" -> {"kubernetes"}
      [] pc = "metrics" -> {"kubernetes", "metrics"}
      [] pc = "logs" -> {"kubernetes", "metrics", "logs"}
      [] pc \in {"traces", "rank", "plan", "done"} -> {"kubernetes", "metrics", "logs", "traces"}
      [] OTHER -> {}

(* The findings analyze_incident merges when no upstream call raises *)
FullFindings(upstream) ==
    Merge(Merge(Merge(Merge(<<>>, AnalyzeKubernetesState(
                                      KubernetesAnswers(upstream.kubernetes, "none"))),
                      AnalyzeMetrics(upstream.metrics)),
                AnalyzeLogs(upstream.logs)),
          AnalyzeTraces(upstream.traces))

----------------------------------------------------------------------------
(* Upstream responses *)

NodeResults(n, v) == [i \in 1..n |-> [instance |-> <<i, 9100>>, value |-> v]]

(* n nodes, all with the same cpu, memory and disk usage *)
Fleet(n, cpu, mem) ==
    [cpu |-> Ok(NodeResults(n, cpu)), mem |-> Ok(NodeResults(n, mem)),
     disk |-> Ok(NodeResults(n, 40))]

PodResults(n, v) == [i \in 1..n |-> [pod |-> i, namespace |-> 1, value |-> v]]

Pods(n) == [cpu |-> Ok(PodResults(n, 1)), mem |-> Ok(PodResults(n, 2))]

Cluster(cpu, mem, nodes) ==
    [cpu |-> cpu, mem |-> mem, pods |-> Ok(<<5>>), nodes |-> nodes]

AllReady == Ok(<<"Ready", "Ready">>)
OneDown == Ok(<<"Ready", "NotReady">>)

(* The metrics the environment serves in the lifecycle and query models *)
SmallInputs ==
    [cluster |-> {Cluster(Ok(<<50>>), Ok(<<70>>), AllReady),
                  Cluster(Raise, Ok(<<90>>), OneDown)},
     nodes |-> {Fleet(1, 50, 50)},
     pods |-> {Pods(1)}]

ThreeReady == Ok(<<"Ready", "Ready", "Ready">>)

(* Cluster readings below, at and above the thresholds, with every query    *)
(* also failing or answering nothing                                        *)
ScoreInputs ==
    [cluster |-> {Cluster(Ok(<<80>>), Ok(<<85>>), ThreeReady),
                  Cluster(Ok(<<85>>), Ok(<<70>>), ThreeReady),
                  Cluster(Ok(<<85>>), Ok(<<86>>), OneDown),
                  Cluster(Ok(<<80>>), Ok(<<86>>), OneDown),
                  Cluster(Raise, Ok(<<86>>), ThreeReady),
                  Cluster(Raise, Ok(<<>>), Raise),
                  Cluster(Ok(<<85>>), Ok(<<70>>), Raise)},
     nodes |-> {Fleet(1, 50, 50)},
     pods |-> {Pods(1)}]

NodeResult(i, v) == [instance |-> <<i, 9100>>, value |-> v]

(* Node 1 above the cpu limit and at the memory limit, node 2 the reverse,  *)
(* and a memory reading for a node 3 that has no cpu reading                *)
MixedFleet ==
    [cpu |-> Ok(<<NodeResult(1, 91), NodeResult(2, 90)>>),
     mem |-> Ok(<<NodeResult(1, 95), NodeResult(2, 96), NodeResult(3, 99)>>),
     disk |-> Ok(<<>>)]

(* A hot node whose memory query fails *)
FailedFleet == [cpu |-> Ok(NodeResults(1, 95)), mem |-> Raise, disk |-> Ok(NodeResults(1, 40))]

(* Readings around the four anomaly thresholds *)
DetectInputs ==
    [cluster |-> {Cluster(Ok(<<80>>), Ok(<<85>>), AllReady),
                  Cluster(Ok(<<85>>), Ok(<<86>>), AllReady),
                  Cluster(Raise, Ok(<<>>), AllReady)},
     nodes |-> {MixedFleet, Fleet(2, 95, 99), Fleet(1, 50, 50), FailedFleet},
     pods |-> {Pods(1)}]

(* The metrics the environment serves in the anomaly-log model *)
LogInputs ==
    [cluster |-> {Cluster(Ok(<<85>>), Ok(<<90>>), AllReady)},
     nodes |-> {Fleet(BigFleet, 95, 99), Fleet(1, 95, 50), Fleet(0, 0, 0)},
     pods |-> {Pods(1)}]

(* What the four sources of the analyzer hold *)

KubernetesQuiet ==
    [nodes |-> Ok(<<[name |-> "n1", status |-> "Ready"]>>),
     pods |-> <<[name |-> "p1", namespace |-> "default", phase |-> "Running",
                 waiting |-> None, restarts |-> 0]>>,
     events |-> Ok(<<>>)]

(* Restarting pods and a warning event: medium findings only *)
KubernetesRestarts ==
    [nodes |-> Ok(<<[name |-> "n1", status |-> "Ready"]>>),
     pods |-> <<[name |-> "p1", namespace |-> "default", phase |-> "Running",
                 waiting |-> None, restarts |-> 11],
                [name |-> "p2", namespace |-> "default", phase |-> "Running",
                 waiting |-> None, restarts |-> 10]>>,
     events |-> Ok(<<[type |-> "Normal", reason |-> "Pulled", message |-> "m1",
                      kind |-> "Pod", namespace |-> "default", name |-> "p1"],
                     [type |-> "Warning", reason |-> "BackOff", message |-> "m2",
                      kind |-> "Pod", namespace |-> "default", name |-> "p1"]>>)]

(* The same with a node that is not ready *)
KubernetesNodeDown ==
    [nodes |-> Ok(<<[name |-> "n1", status |-> "Ready"], [name |-> "n2", status |-> "NotReady"]>>),
     pods |-> KubernetesRestarts.pods,
     events |-> KubernetesRestarts.events]

(* A pod in a crash loop with few restarts and one with many, and eleven    *)
(* warning events after a normal one                                        *)
KubernetesCrashLoop ==
    [nodes |-> Ok(<<[name |-> "n1", status |-> "NotReady"], [name |-> "n2", status |-> "Ready"]>>),
     pods |-> <<[name |-> "p1", namespace |-> "default", phase |-> "Running",
                 waiting |-> "CrashLoopBackOff", restarts |-> 3],
                [name |-> "p2", namespace |-> "default", phase |-> "Pending",
                 waiting |-> "ContainerCreating", restarts |-> 0],
                [name |-> "p3", namespace |-> "default", phase |-> "Running",
                 waiting |-> "CrashLoopBackOff", restarts |-> 12]>>,
     events |-> Ok(<<[type |-> "Normal", reason |-> "Scheduled", message |-> "m0",
                      kind |-> "Pod", namespace |-> "default", name |-> "p2"]>>
                   \o [i \in 1..11 |->
                         [type |-> "Warning", reason |-> "BackOff",
                          message |-> <<"w1", "w2", "w3", "w4", "w5", "w6", "w7", "w8", "w9",
                                        "w10", "w11">>[i],
                          kind |-> "Pod", namespace |-> "default", name |-> "p1"]])]

MetricsQuiet ==
    [alerts |-> Ok(<<>>),
     cluster |-> Ok([cpu_usage |-> <<[instance |-> "n1", value |-> 80]>>,
                     memory_usage |-> <<[instance |-> "n1", value |-> 40]>>,
                     disk_usage |-> <<>>])]

(* An info alert before a critical one, and a node above 80% cpu *)
MetricsFiring ==
    [alerts |-> Ok(<<[name |-> "DiskWillFill", severity |-> "info", instance |-> "n1"],
                     [name |-> "TargetDown", severity |-> "CRITICAL", instance |-> None]>>),
     cluster |-> Ok([cpu_usage |-> <<[instance |-> "n1", value |-> 85]>>,
                     memory_usage |-> <<[instance |-> "n1", value |-> 40]>>,
                     disk_usage |-> <<>>])]

Errors(job, n) == [i \in 1..n |-> [job |-> job, message |-> <<job, i>>]]

LogsQuiet == Ok(<<>>)

(* One error of one service, then eleven of another *)
LogsNoisy == Ok(Errors("api", 1) \o Errors("db", 11))

TracesQuiet == [services |-> Ok(<<>>), latency |-> <<>>]

(* A service with 20% failing requests and a p95 of 2 s, one that is only   *)
(* slow, and one whose traces cannot be read                                *)
TracesSlow ==
    [services |-> Ok(<<"api", "db", "web">>),
     latency |-> [service \in {"api", "db", "web"} |->
                    CASE service = "api" ->
                           [err |-> FALSE, empty |-> FALSE, error_traces |-> 2,
                            total_traces |-> 10, p95 |-> 2000000]
                      [] service = "db" ->
                           [err |-> FALSE, empty |-> FALSE, error_traces |-> 1,
                            total_traces |-> 10, p95 |-> 1000001]
                      [] service = "web" -> NoAnswer]]

(* A rule without a severity label fires between a critical alert and a    *)
(* warning, and a rule with a severity of its own after them                *)
MetricsUnlabelled ==
    [alerts |-> Ok(<<[name |-> "ApiDown", severity |-> "critical", instance |-> "n1"],
                     [name |-> "Watchdog", severity |-> None, instance |-> None],
                     [name |-> "DiskWillFill", severity |-> "warning", instance |-> "n1"],
                     [name |-> "CertExpiry", severity |-> "page", instance |-> "n1"]>>),
     cluster |-> MetricsQuiet.cluster]

Worlds ==
    [kubernetes : {KubernetesQuiet, KubernetesRestarts, KubernetesNodeDown, KubernetesCrashLoop},
     metrics : {MetricsQuiet, MetricsFiring, MetricsUnlabelled},
     logs : {LogsQuiet, LogsNoisy},
     traces : {TracesQuiet, TracesSlow}]

AnalyzerInputs == [cluster |-> {}, nodes |-> {}, pods |-> {}, worlds |-> Worlds]

(* One call of analyze_incident, whatever the sources hold and whichever of *)
(* their calls raise                                                        *)
InitAnalyzer == InitCollector /\ inputs = AnalyzerInputs

NextAnalyzer ==
    \/ AnalyzeIncident
    \/ KubernetesStep
    \/ MetricsStep
    \/ LogsStep
    \/ TracesStep
    \/ RootCauseStep
    \/ ActionPlanStep

SpecAnalyzer == InitAnalyzer /\ [][NextAnalyzer]_vars

(* The findings _determine_root_cause and _generate_action_plan are applied *)
(* to: the findings the adapters build, one with a single suggested action  *)
(* and one without suggested_actions; i tells the findings of a list apart. *)
FindingKinds ==
    {"node_not_ready", "pod_crash_loop", "kubernetes_warning", "prometheus_alert",
     "single_action", "no_actions"}

Finding(kind, i) ==
    CASE kind = "node_not_ready" ->
           NodeStep(<<>>, [name |-> i, status |-> "NotReady"])[1]
      [] kind = "pod_crash_loop" ->
           PodStep(<<>>, [name |-> i, namespace |-> "default",
                          status |-> "CrashLoopBackOff", restarts |-> 0])[1]
      [] kind = "kubernetes_warning" ->
           EventStep(<<>>, [kind |-> "Pod", namespace |-> "default", name |-> i,
                            reason |-> "BackOff", message |-> i])[1]
      [] kind = "prometheus_alert" ->
           AlertStep(<<<<>>, FALSE>>, [name |-> i, severity |-> "info",
                                       instance |-> None])[1][1]
      [] kind = "single_action" ->
           [type |-> "single_action", severity |-> "low", resource |-> <<"service", i>>,
            description |-> <<"Single", i>>,
            suggested_actions |-> <<"Escalate to the owning team">>]
      [] kind = "no_actions" ->
           [type |-> "no_actions", severity |-> "info", resource |-> <<"service", i>>,
            description |-> <<"Note", i>>]

MaxFindings == 4

FindingLists ==
    UNION {{[i \in 1..n |-> Finding(kinds[i], i)] : kinds \in [1..n -> FindingKinds]}
           : n \in 0..MaxFindings}

(* _determine_root_cause about to be applied to a findings list *)
InitRank ==
    /\ CollectorIdle
    /\ router = RouterCollector
    /\ second = NoAnalysis
    /\ health = NoCheck
    /\ inputs = [cluster |-> {}, nodes |-> {}, pods |-> {}, worlds |-> {}]
    /\ \E findings \in FindingLists :
          analysis = [pc |-> "rank", upstream |-> <<>>, answers |-> <<>>, timestamp |-> 0,
                      analysis_steps |-> <<>>, findings |-> findings,
                      root_cause |-> <<None>>, confidence |-> 0, severity |-> None,
                      action_plan |-> <<>>]

NextRank ==
    \/ RootCauseStep
    \/ ActionPlanStep

SpecRank == InitRank /\ [][NextRank]_vars

(* One call of check_kubernetes_cluster_health, whatever the cluster holds  *)
(* and whichever of its queries raise: the clusters above, one with all     *)
(* nodes ready and a failed pod, one with a failed pod and a node that is   *)
(* not ready, and an empty one                                              *)
HealthInputs ==
    LET failed_pod == <<[name |-> "p1", namespace |-> "default", phase |-> "Running",
                         waiting |-> None, restarts |-> 0],
                        [name |-> "p2", namespace |-> "default", phase |-> "Failed",
                         waiting |-> None, restarts |-> 0]>>
    IN  [cluster |-> {}, nodes |-> {}, pods |-> {},
         worlds |-> [kubernetes :
                        {KubernetesQuiet, KubernetesRestarts, KubernetesNodeDown,
                         KubernetesCrashLoop,
                         [nodes |-> KubernetesQuiet.nodes, pods |-> failed_pod,
                          events |-> Ok(<<>>)],
                         [nodes |-> KubernetesNodeDown.nodes, pods |-> failed_pod,
                          events |-> Ok(<<>>)],
                         [nodes |-> Ok(<<>>), pods |-> <<>>, events |-> Ok(<<>>)]}]]

InitHealth == InitCollector /\ inputs = HealthInputs

NextHealth ==
    \/ CheckKubernetesClusterHealth
    \/ NodesCheck
    \/ PodsCheck
    \/ ClusterInfoCheck

SpecHealth == InitHealth /\ [][NextHealth]_vars

(* Two requests to POST /analysis/incident served by the one event loop,    *)
(* over a cluster in trouble and a quiet one                                *)
ConcurrentInputs ==
    [cluster |-> {}, nodes |-> {}, pods |-> {},
     worlds |-> {[kubernetes |-> KubernetesNodeDown, metrics |-> MetricsFiring,
                  logs |-> LogsNoisy, traces |-> TracesSlow],
                 [kubernetes |-> KubernetesRestarts, metrics |-> MetricsQuiet,
                  logs |-> LogsQuiet, traces |-> TracesQuiet]}]

InitConcurrent == InitCollector /\ inputs = ConcurrentInputs

NextConcurrent ==
    \/ AnalyzeIncident
    \/ KubernetesStep
    \/ MetricsStep
    \/ LogsStep
    \/ TracesStep
    \/ RootCauseStep
    \/ ActionPlanStep
    \/ Switch

SpecConcurrent == InitConcurrent /\ [][NextConcurrent]_vars

Sampler ==
    \/ \E t \in Tasks : LoopIter(t)
    \/ \E t \in Tasks : CollectCluster(t)
    \/ \E t \in Tasks : CollectNodes(t)
    \/ \E t \in Tasks : CollectPods(t)

(* The collector under arbitrary sequences of start() and stop() calls *)
Init == InitCollector /\ inputs = SmallInputs

Next ==
    \/ Start
    \/ Stop
    \/ StopReturn
    \/ Sampler
    \/ \E t \in Tasks : DeliverCancel(t)
    \/ Clock

Spec == Init /\ [][Next]_vars

(* The collector started once, as app/main.py's lifespan starts it, and     *)
(* queried while it samples.                                                *)
StartOnce == collection_task = 0 /\ Start

NextQuery ==
    \/ StartOnce
    \/ Sampler
    \/ GetSummary
    \/ \E h \in WindowHours : GetAnomalies(h)
    \/ Clock

SpecQuery == Init /\ [][NextQuery]_vars

(* The same, with fleets large enough to fill the anomaly log *)
InitLog == InitCollector /\ inputs = LogInputs

NextLog ==
    \/ StartOnce
    \/ Sampler
    \/ Clock

SpecLog == InitLog /\ [][NextLog]_vars

(* The started collector sampling a cluster around the health thresholds,  *)
(* with summaries requested between ticks                                   *)
InitScore == InitCollector /\ inputs = ScoreInputs

NextScore ==
    \/ StartOnce
    \/ Sampler
    \/ GetSummary
    \/ Clock

SpecScore == InitScore /\ [][NextScore]_vars

(* The started collector sampling readings around the anomaly thresholds *)
InitDetect == InitCollector /\ inputs = DetectInputs

SpecDetect == InitDetect /\ [][NextLog]_vars

(* The application: lifespan starts a collector, which samples, while the   *)
(* metrics routes serve requests                                            *)
RouteHours == {1, 6, 24}

InitApp == InitCollector /\ inputs = DetectInputs

NextApp ==
    \/ StartOnce
    \/ Sampler
    \/ GetCollectorSummary
    \/ \E hours \in RouteHours : RouteGetAnomalies(hours)
    \/ Clock

SpecApp == InitApp /\ [][NextApp]_vars

TypeOK ==
    /\ is_running \in BOOLEAN
    /\ collection_task \in 0..MaxTasks
    /\ running \in 0..MaxTasks
    /\ ctl \in {"idle", "stopping"}
    /\ \A t \in Tasks : task[t].pc \in Done \cup Alive \cup {"none"}
    /\ Len(anomalies) <= MaxAnomalies

----------------------------------------------------------------------------
(* Properties *)

Min(a, b) == IF a < b THEN a ELSE b

(* C1: the anomaly log never holds more than 100 entries, and what it holds *)
(* is exactly the latest entries ever appended, in append order (only the   *)
(* oldest are evicted), also when one tick appends more than 100.           *)
AnomalyLogFifo ==
    LET n == Len(anomalies)
        m == Len(appended)
    IN  /\ n <= MaxAnomalies
        /\ n = Min(m, MaxAnomalies)
        /\ \A i \in 1..n : anomalies[i] = appended[m - n + i]

(* A full log that keeps entries of two ticks after more than 100 were      *)
(* appended                                                                 *)
AnomalyLogEvicted ==
    /\ Len(appended) > MaxAnomalies + 2 * BigFleet
    /\ Len(anomalies) = MaxAnomalies
    /\ anomalies[1].timestamp < anomalies[MaxAnomalies].timestamp

(* C2: once a tick has returned, every section the store retains is no      *)
(* older than 6 hours at the time that tick returned, and the store never   *)
(* holds more than its three sections.                                      *)
RollingWindowFresh ==
    /\ DOMAIN collected_metrics \subseteq {"cluster", "nodes", "pods"}
    /\ tick_end >= 0 =>
          \A k \in DOMAIN collected_metrics :
              collected_metrics[k].timestamp >= tick_end - Retention

(* A tick that took exactly 6 hours keeps its sample *)
SampleAtHorizon ==
    /\ tick_end > 0
    /\ Has(collected_metrics, "cluster")
    /\ collected_metrics["cluster"].timestamp = tick_end - Retention

(* C3: at most one sampler loop is alive at any time *)
SingleSampler == Cardinality({t \in Tasks : task[t].pc \in Alive}) <= 1

(* C4: while the latest completed lifecycle call is stop(), the task stop() *)
(* cancelled is done, no task is inside a tick, and no step writes the      *)
(* sample store or the anomaly log.                                         *)
StopQuiesces ==
    [][last_op = "stop" =>
          /\ collection_task # 0 => task[collection_task].pc \in Done
          /\ \A t \in Tasks : task[t].pc \notin {"q_cluster", "q_nodes", "q_pods"}
          /\ UNCHANGED <<collected_metrics, anomalies>>]_vars

(* stop() has returned after it cancelled a sampler that had sampled *)
StoppedAfterTick ==
    /\ last_op = "stop"
    /\ ctl = "idle"
    /\ collection_task # 0
    /\ task[collection_task].pc = "cancelled"
    /\ tick_end >= 0

(* C5: stop() never raises and leaves the collector not running; called     *)
(* before any start(), or again after a stop(), it changes nothing else.    *)
StopIdempotent ==
    [][Stop =>
          /\ ~stop_raised'
          /\ ~is_running'
          /\ last_op \in {"none", "stop"} =>
                /\ last_op' = "stop"
                /\ UNCHANGED <<is_running, collection_task, task, ctl>>]_vars

(* stop() has returned on a collector that was never started *)
StoppedBeforeStart ==
    /\ last_op = "stop"
    /\ collection_task = 0
    /\ ~is_running
    /\ ~stop_raised

(* C6: whatever upstream queries fail in its ticks, a sampler task ends     *)
(* only when it is cancelled or finds the running flag cleared, and only    *)
(* while a stop() call is in progress or is the latest lifecycle call.      *)
LoopEndsOnlyByStop ==
    [][\A t \in Tasks :
          (task[t].pc \in Alive /\ task'[t].pc \in Done) =>
              /\ task[t].cancel \/ ~is_running
              /\ last_op = "stop" \/ ctl = "stopping"]_vars

(* A sampler that was never stopped sleeps after a tick with failed queries *)
SleepsAfterFailedTick ==
    /\ is_running
    /\ last_op = "start"
    /\ \E t \in Tasks : task[t].pc = "sleeping" /\ task[t].failed /\ ~task[t].cancel

(* C7: after a tick in which an upstream query failed the loop sleeps the   *)
(* retry interval (30 s)                                                    *)
FailedTickRetriesSooner ==
    \A t \in Tasks :
        (task[t].pc = "sleeping" /\ task[t].failed) => task[t].sleep = SleepRetry

(* C8: no query ever reads the store or the log inside a tick: what it sees *)
(* is the state some tick left, and a log within capacity.                  *)
NoTornRead == ~torn

(* A summary served between two ticks of a live sampler *)
SummaryBetweenTicks ==
    /\ summary # <<>>
    /\ summary.node_count > 0
    /\ tick_end >= 0
    /\ \E t \in Tasks : task[t].pc = "q_cluster"

(* C9: get_metrics_summary and get_anomalies change neither the store, the  *)
(* log, the running flag nor any sampler task.                              *)
QueriesReadOnly ==
    [][(GetSummary \/ \E h \in WindowHours : GetAnomalies(h)) =>
          UNCHANGED <<collected_metrics, anomalies, is_running, collection_task, task>>]_vars

(* Both queries have answered from a store and a log that hold data *)
QueriesAnswered ==
    /\ summary # <<>>
    /\ summary.pod_count > 0
    /\ anomaly_result # <<>>
    /\ Len(anomalies) > Len(anomaly_result)

(* C10 as stated: two summaries with no tick between them are identical *)
SummaryRepeats ==
    (untouched /\ prev_summary # <<>>) => summary = prev_summary

(* C10 amended: two summaries with no tick between them agree on the health *)
(* score, the cluster metrics and the node and pod counts, and on every     *)
(* field when both were computed at the same clock reading.                 *)
SummaryRepeatsUpToClock ==
    (untouched /\ prev_summary # <<>>) =>
        /\ summary.cluster_health_score = prev_summary.cluster_health_score
        /\ summary.cluster_metrics = prev_summary.cluster_metrics
        /\ summary.node_count = prev_summary.node_count
        /\ summary.pod_count = prev_summary.pod_count
        /\ summary.timestamp = prev_summary.timestamp => summary = prev_summary

(* Two summaries of a filled store, taken at different times with no tick   *)
(* between them                                                             *)
SummariesApart ==
    /\ untouched
    /\ prev_summary # <<>>
    /\ prev_summary.node_count > 0
    /\ prev_summary.timestamp < summary.timestamp

(* The penalties as the health-score rule words them *)
Penalty(breached, points) == IF breached THEN points ELSE 0

(* C11 as stated: the health score of a summary taken of a stored cluster   *)
(* sample is 100, minus 20 for a cpu reading above 80, minus 20 for a       *)
(* memory reading above 85, minus 30 when the sample's ready_nodes is below *)
(* its total_nodes; a reading the sample lacks incurs no penalty.           *)
HealthScoreAsStated ==
    (fresh /\ Has(collected_metrics, "cluster")) =>
        LET cm == summary.cluster_metrics
        IN  summary.cluster_health_score =
                100 - Penalty(Has(cm, "cpu_usage_percent") /\ cm["cpu_usage_percent"] > 80, 20)
                    - Penalty(Has(cm, "memory_usage_percent") /\ cm["memory_usage_percent"] > 85, 20)
                    - Penalty(Has(cm, "ready_nodes") /\ Has(cm, "total_nodes")
                              /\ cm["ready_nodes"] < cm["total_nodes"], 30)

(* C11 amended: as stated, but a summary without node status (the node      *)
(* query failed, or no cluster sample is stored) is penalised 30 as well;   *)
(* the score stays within 0..100.                                           *)
HealthScoreWithDefaults ==
    summary # <<>> =>
        LET cm == summary.cluster_metrics
            no_nodes == ~Has(cm, "ready_nodes") /\ ~Has(cm, "total_nodes")
        IN  /\ summary.cluster_health_score \in 0..100
            /\ Has(cm, "ready_nodes") <=> Has(cm, "total_nodes")
            /\ summary.cluster_health_score =
                100 - Penalty(Has(cm, "cpu_usage_percent") /\ cm["cpu_usage_percent"] > 80, 20)
                    - Penalty(Has(cm, "memory_usage_percent") /\ cm["memory_usage_percent"] > 85, 20)
                    - Penalty(no_nodes \/ (~no_nodes /\ cm["ready_nodes"] < cm["total_nodes"]), 30)

(* The summary of the sample cpu 85, memory 70, 3 of 3 nodes ready scores   *)
(* 80, after a summary of a sample exactly at both thresholds scored 100.   *)
ScoredEighty ==
    /\ summary # <<>> /\ prev_summary # <<>>
    /\ Get(summary.cluster_metrics, "cpu_usage_percent", 0) = 85
    /\ Get(summary.cluster_metrics, "memory_usage_percent", 0) = 70
    /\ Get(summary.cluster_metrics, "ready_nodes", 0) = 3
    /\ Get(summary.cluster_metrics, "total_nodes", 0) = 3
    /\ summary.cluster_health_score = 80
    /\ Get(prev_summary.cluster_metrics, "cpu_usage_percent", 0) = 80
    /\ Get(prev_summary.cluster_metrics, "memory_usage_percent", 0) = 85
    /\ prev_summary.cluster_health_score = 100

(* Whether an anomaly lies in the window: timestamp >= now - hours, in      *)
(* whole hours                                                              *)
InWindow(a, hours, current_time) == (current_time - a.timestamp + 3599) \div 3600 <= hours

(* C12: get_anomalies(window) returns exactly the entries of the anomaly    *)
(* log whose timestamp >= now - window, in log order, whatever the log and  *)
(* the window.                                                              *)
AnomaliesInWindow ==
    [][\A h \in WindowHours :
          GetAnomalies(h) =>
              LET keep(a) == InWindow(a, h, now)
              IN  anomaly_result' = SelectSeq(anomalies, keep)]_vars

(* What identifies an anomaly: its type, resource, value, threshold and     *)
(* severity (a cluster anomaly names no resource)                           *)
AnomalyKey(a) ==
    <<a.type, IF "resource" \in DOMAIN a THEN a.resource ELSE <<"cluster", 0>>,
      a.value, a.threshold, a.severity>>

(* The threshold breaches of a sample: cluster metrics cm, node metrics nm *)
Breaches(cm, nm) ==
    {<<"high_cluster_cpu", <<"cluster", 0>>, cm[k], 80, "high">> :
        k \in {x \in DOMAIN cm : x = "cpu_usage_percent" /\ cm[x] > 80}}
    \cup
    {<<"high_cluster_memory", <<"cluster", 0>>, cm[k], 85, "high">> :
        k \in {x \in DOMAIN cm : x = "memory_usage_percent" /\ cm[x] > 85}}
    \cup
    {<<"high_node_cpu", <<"node", nm[i][1]>>, nm[i][2]["cpu_usage_percent"], 90, "critical">> :
        i \in {x \in 1..Len(nm) : Has(nm[x][2], "cpu_usage_percent")
                                    /\ nm[x][2]["cpu_usage_percent"] > 90}}
    \cup
    {<<"high_node_memory", <<"node", nm[i][1]>>, nm[i][2]["memory_usage_percent"], 95, "critical">> :
        i \in {x \in 1..Len(nm) : Has(nm[x][2], "memory_usage_percent")
                                    /\ nm[x][2]["memory_usage_percent"] > 95}}

(* C13: the anomalies a tick appends are exactly one per threshold breach   *)
(* of the sample the tick stored (cluster cpu > 80, cluster memory > 85,    *)
(* node cpu > 90, node memory > 95), each with the observed value, the      *)
(* threshold and the tick's time, and nothing else; they are appended       *)
(* whatever the log already holds.                                          *)
ClassifiesEveryBreach ==
    [][\A t \in Tasks :
          (task[t].pc = "q_pods" /\ task'[t].pc = "sleeping") =>
              LET cm == collected_metrics["cluster"].metrics
                  nm == collected_metrics["nodes"].metrics
                  new == SubSeq(appended', Len(appended) + 1, Len(appended'))
                  keys == {AnomalyKey(new[i]) : i \in 1..Len(new)}
              IN  /\ keys = Breaches(cm, nm)
                  /\ Cardinality(keys) = Len(new)
                  /\ \A i \in 1..Len(new) : new[i].timestamp = now
                  /\ Len(anomalies) + Len(new) <= MaxAnomalies =>
                         anomalies' = anomalies \o new]_vars

(* A node that stayed above the memory limit was reported at two ticks, and *)
(* a later tick with no breach at all appended nothing.                     *)
ReportedAtEveryTick ==
    /\ \E i, j \in 1..Len(appended) :
          /\ appended[i].type = "high_node_memory" /\ appended[j].type = "high_node_memory"
          /\ appended[i].resource = <<"node", 2>> /\ appended[j].resource = <<"node", 2>>
          /\ appended[i].value = 96 /\ appended[j].value = 99
          /\ appended[i].timestamp < appended[j].timestamp
    /\ tick_end > appended[Len(appended)].timestamp
    /\ Has(collected_metrics, "nodes") /\ Len(collected_metrics["nodes"].metrics) = 1

(* The order of the analysis steps *)
StepNames == <<"kubernetes_analysis", "metrics_analysis", "logs_analysis", "traces_analysis">>

(* What step i of the analysis contributed *)
Contribution(i) ==
    IF i <= Len(analysis.analysis_steps) THEN analysis.analysis_steps[i].findings ELSE <<>>

(* Whether every upstream call of source i raised, and whether none did *)
Unreachable(i) ==
    LET r == analysis.answers[i]
    IN  CASE i = 1 -> r.nodes.err
          [] i = 2 -> r.alerts.err /\ r.cluster.err
          [] i = 3 -> r.err
          [] i = 4 -> r.services.err

Intact(i) ==
    analysis.answers[i] =
        CASE i = 1 -> KubernetesAnswers(analysis.upstream.kubernetes, "none")
          [] i = 2 -> analysis.upstream.metrics
          [] i = 3 -> analysis.upstream.logs
          [] i = 4 -> analysis.upstream.traces

(* What source i holds findings for *)
SourceFindings(i) ==
    CASE i = 1 -> AnalyzeKubernetesState(KubernetesAnswers(analysis.upstream.kubernetes, "none"))
      [] i = 2 -> AnalyzeMetrics(analysis.upstream.metrics)
      [] i = 3 -> AnalyzeLogs(analysis.upstream.logs)
      [] i = 4 -> AnalyzeTraces(analysis.upstream.traces)

(* C14: whichever sources' upstream calls raise, analyze_incident does not  *)
(* raise; the analysis it returns records the four steps as "completed",    *)
(* an unreachable source contributes nothing, a source none of whose calls  *)
(* raised contributes its findings, and the findings are these              *)
(* contributions.                                                           *)
AnalyzeToleratesFailures ==
    /\ analysis.pc # "raised"
    /\ analysis.pc = "done" =>
          /\ Len(analysis.analysis_steps) = 4
          /\ \A i \in 1..4 :
                /\ analysis.analysis_steps[i].status = "completed"
                /\ Unreachable(i) => Contribution(i) = <<>>
                /\ Intact(i) => Contribution(i) = SourceFindings(i)
          /\ \A i \in 1..Len(analysis.findings) :
                \E j \in 1..4 : \E k \in 1..Len(Contribution(j)) :
                    ~Unreachable(j) /\ Contribution(j)[k] = analysis.findings[i]
          /\ Len(analysis.findings) =
                Len(Contribution(1)) + Len(Contribution(2)) + Len(Contribution(3))
                   + Len(Contribution(4))
          /\ analysis.action_plan # <<>>

(* An analysis returned although the trace source was unreachable, with the *)
(* findings of the other three sources                                      *)
AnalyzedWithoutTraces ==
    /\ analysis.pc = "done"
    /\ Unreachable(4) /\ Intact(1) /\ Intact(2) /\ Intact(3)
    /\ SourceFindings(4) # <<>>
    /\ Contribution(4) = <<>>
    /\ Contribution(1) # <<>> /\ Contribution(2) # <<>> /\ Contribution(3) # <<>>

(* C15: the four adapters run concurrently: whenever analyze_incident waits *)
(* for an adapter, all four adapters have been invoked.                     *)
AdaptersConcurrent ==
    analysis.pc \in {"kubernetes", "metrics", "logs", "traces"} =>
        Invoked(analysis.pc) = {"kubernetes", "metrics", "logs", "traces"}

(* C16: at every point of the analysis the findings are the concatenation   *)
(* of the recorded contributions in the order cluster state, metrics, logs, *)
(* traces, each in the order its adapter returned it.                       *)
MergedInOrder ==
    analysis.pc \in {"metrics", "logs", "traces", "rank", "plan", "done"} =>
        LET n == Len(analysis.analysis_steps)
        IN  /\ \A i \in 1..n : analysis.analysis_steps[i].step = StepNames[i]
            /\ n = Len(analysis.answers)
            /\ n >= 1 => Contribution(1) = AnalyzeKubernetesState(analysis.answers[1])
            /\ n >= 2 => Contribution(2) = AnalyzeMetrics(analysis.answers[2])
            /\ n >= 3 => Contribution(3) = AnalyzeLogs(analysis.answers[3])
            /\ n >= 4 => Contribution(4) = AnalyzeTraces(analysis.answers[4])
            /\ analysis.findings =
                  Contribution(1) \o Contribution(2) \o Contribution(3) \o Contribution(4)

(* An analysis whose metrics adapter returned nothing between the findings  *)
(* of the cluster state and those of the logs and traces                    *)
MergedAroundEmpty ==
    /\ analysis.pc = "done"
    /\ Len(Contribution(1)) >= 2
    /\ Contribution(2) = <<>>
    /\ Len(Contribution(3)) >= 2
    /\ Len(Contribution(4)) >= 2
    /\ analysis.findings[1] = Contribution(1)[1]
    /\ analysis.findings[Len(analysis.findings)] = Contribution(4)[Len(Contribution(4))]

(* The position of the first finding of a severity, 0 if there is none *)
FirstOf(findings, severity) ==
    LET at == {i \in 1..Len(findings) : findings[i].severity = severity}
    IN  IF at = {} THEN 0 ELSE CHOOSE i \in at : \A j \in at : i <= j

(* C17: an empty findings list ranks as "No issues detected" with           *)
(* confidence 1.0 and severity info; otherwise the root cause is the        *)
(* description of the first critical finding (0.9, critical), else of the   *)
(* first high finding (0.7, high), else of the first finding (0.5, medium). *)
RanksBySeverity ==
    analysis.pc \in {"plan", "done"} =>
        LET findings == analysis.findings
            c == FirstOf(findings, "critical")
            h == FirstOf(findings, "high")
            ranked == <<analysis.root_cause, analysis.confidence, analysis.severity>>
        IN  IF findings = <<>> THEN ranked = <<<<"No issues detected">>, 10, "info">>
            ELSE IF c > 0 THEN ranked = <<findings[c].description, 9, "critical">>
            ELSE IF h > 0 THEN ranked = <<findings[h].description, 7, "high">>
            ELSE ranked = <<findings[1].description, 5, "medium">>

(* A high finding followed by two critical ones: the first critical finding *)
(* is the root cause                                                        *)
RankedFirstCritical ==
    /\ analysis.pc = "done"
    /\ Len(analysis.findings) >= 3
    /\ analysis.findings[1].severity = "high"
    /\ analysis.findings[2].severity = "critical"
    /\ analysis.findings[3].severity = "critical"
    /\ analysis.root_cause = analysis.findings[2].description
    /\ analysis.root_cause # analysis.findings[3].description
    /\ analysis.confidence = 9

(* C18: the plan is two opening steps of 5 and 10 minutes, k steps of 15    *)
(* minutes derived from findings with 0 <= k <= 6, and one closing step of  *)
(* 10 minutes; the steps are numbered 1, 2, ..., total_steps = 3 + k and    *)
(* estimated_total_duration = 25 + 15 * k.                                  *)
PlanShape ==
    analysis.pc = "done" =>
        LET plan == analysis.action_plan
            n == Len(plan.steps)
            k == n - 3
        IN  /\ k \in 0..6
            /\ plan.total_steps = 3 + k
            /\ \A i \in 1..n : plan.steps[i].step = i
            /\ plan.steps[1] = [step |-> 1, estimated_duration |-> 5, critical |-> TRUE,
                                action |-> "Acknowledge the incident and assess impact"]
            /\ plan.steps[2] = [step |-> 2, estimated_duration |-> 10, critical |-> TRUE,
                                action |-> "Gather additional context and metrics"]
            /\ plan.steps[n] = [step |-> n, estimated_duration |-> 10, critical |-> TRUE,
                                action |-> "Verify resolution and monitor system stability"]
            /\ \A i \in 3..(n - 1) :
                  /\ plan.steps[i].estimated_duration = 15
                  /\ Has(plan.steps[i], "related_finding")
            /\ plan.estimated_total_duration = 25 + 15 * k

(* A plan with six finding-derived steps, and nine steps in all *)
PlannedNineSteps ==
    /\ analysis.pc = "done"
    /\ Len(analysis.findings) >= 3
    /\ analysis.action_plan.total_steps = 9
    /\ analysis.action_plan.estimated_total_duration = 115

(* The steps finding i gives rise to, as <<action, related_finding>> *)
StepsOf(i) ==
    LET finding == analysis.findings[i]
        actions == IF Has(finding, "suggested_actions") THEN finding.suggested_actions
                   ELSE <<>>
    IN  IF i > Len(analysis.findings) THEN <<>>
        ELSE [j \in 1..Min(2, Len(actions)) |-> <<actions[j], finding.type>>]

(* C19: the finding-derived steps are, for each of the first three findings *)
(* in order, its first two (or fewer) suggested actions in order, each a    *)
(* non-critical step of 15 minutes tagged with the finding's type; later    *)
(* findings and later actions give no step; critical_steps is the           *)
(* subsequence of the critical steps, the two opening and the closing one.  *)
PlanFollowsFindings ==
    analysis.pc = "done" =>
        LET plan == analysis.action_plan
            n == Len(plan.steps)
            derived == [j \in 1..(n - 3) |->
                          <<plan.steps[j + 2].action, plan.steps[j + 2].related_finding>>]
        IN  /\ n >= 3
            /\ \A j \in 3..(n - 1) :
                  /\ plan.steps[j].critical = FALSE
                  /\ plan.steps[j].estimated_duration = 15
                  /\ DOMAIN plan.steps[j] =
                        {"step", "action", "estimated_duration", "critical", "related_finding"}
            /\ derived = StepsOf(1) \o StepsOf(2) \o StepsOf(3)
            /\ plan.critical_steps = <<plan.steps[1], plan.steps[2], plan.steps[n]>>

(* A plan over four findings: the first has no suggested action, the second *)
(* one, the third three of which two are taken, the fourth is left out      *)
PlannedFromFirstThree ==
    /\ analysis.pc = "done"
    /\ Len(analysis.findings) = 4
    /\ ~Has(analysis.findings[1], "suggested_actions")
    /\ analysis.findings[2].type = "single_action"
    /\ analysis.findings[3].type = "node_not_ready"
    /\ analysis.findings[4].type = "pod_crash_loop"
    /\ analysis.action_plan.total_steps = 6
    /\ Len(analysis.action_plan.critical_steps) = 3
    /\ analysis.action_plan.steps[5].related_finding = analysis.findings[3].type

(* C20: for fixed upstream data, an analysis with one or more sources       *)
(* unreachable returns a complete diagnosis whose confidence is no higher   *)
(* than that of the analysis with every source reachable.                   *)
DegradedNoMoreConfident ==
    (analysis.pc = "done" /\ \E i \in 1..4 : Unreachable(i)) =>
        /\ analysis.action_plan # <<>>
        /\ analysis.root_cause # <<None>>
        /\ analysis.confidence
              <= DetermineRootCause(FullFindings(analysis.upstream)).confidence

(* C21: the anomalies the sampler started at startup records are what the   *)
(* anomalies route returns: a request with a covering window returns every  *)
(* anomaly the sampler has recorded within that window.                     *)
RoutesReadSampler ==
    [][\A hours \in RouteHours : RouteGetAnomalies(hours) =>
          LET keep(a) == InWindow(a, hours, now)
          IN  router'.anomaly_result = SelectSeq(anomalies, keep)]_vars

(* Whether the tick that is completing classifies the metrics the previous  *)
(* tick classified (stable[1] is the store the previous tick left)          *)
SameSample ==
    /\ tick_end >= 0
    /\ Has(stable[1], "cluster") /\ Has(stable[1], "nodes")
    /\ stable[1]["cluster"].metrics = collected_metrics["cluster"].metrics
    /\ stable[1]["nodes"].metrics = collected_metrics["nodes"].metrics

(* The anomalies the previous tick classified *)
PreviousList ==
    LET at_tick_end(a) == a.timestamp = tick_end
    IN  SelectSeq(appended, at_tick_end)

(* An anomaly without its time stamp *)
Unstamped(list) ==
    [i \in 1..Len(list) |-> [k \in DOMAIN list[i] \ {"timestamp"} |-> list[i][k]]]

MappedSeverities(severity) ==
    CASE severity = "critical" -> {"critical"}
      [] severity = "warning" -> {"medium"}
      [] severity = "info" -> {"low"}
      [] severity \in {None, "page"} -> {"medium"}
      [] OTHER -> {"critical", "high", "medium", "low", "info"}

(* C23: the metrics adapter emits one finding per firing alert, in order,   *)
(* with the severity the mapping gives (medium for an unknown or missing    *)
(* alert severity); no alert is dropped.                                    *)
EveryAlertMapped ==
    (analysis.pc \in {"logs", "traces", "rank", "plan", "done"}
        /\ ~analysis.answers[2].alerts.err) =>
        LET firing == analysis.answers[2].alerts.res
            IsAlert(finding) == finding.type = "prometheus_alert"
            found == SelectSeq(Contribution(2), IsAlert)
        IN  /\ Len(found) = Len(firing)
            /\ \A i \in 1..Len(found) :
                  /\ found[i].description = <<"Alert", firing[i].name, "is firing">>
                  /\ found[i].severity \in MappedSeverities(firing[i].severity)

(* The findings of one type among those the cluster-state adapter returned *)
FoundOfType(type) ==
    LET HasType(finding) == finding.type = type
    IN  SelectSeq(Contribution(1), HasType)

(* The place of a finding type in the order nodes, pods, events *)
TypeRank(type) ==
    CASE type = "node_not_ready" -> 1
      [] type \in {"pod_crash_loop", "frequent_restarts"} -> 2
      [] type = "kubernetes_warning" -> 3

(* C24: the cluster-state adapter emits one critical finding per not-ready  *)
(* node, one high finding per pod in crash-loop state, one medium finding   *)
(* per pod with more than 10 restarts and one medium finding per warning    *)
(* event up to 10 (none for other events), in the order nodes, pods,        *)
(* events.                                                                  *)
ClusterStateClassified ==
    (analysis.pc \in {"metrics", "logs", "traces", "rank", "plan", "done"} /\ Intact(1)) =>
        LET data == analysis.upstream.kubernetes
            found == Contribution(1)
            NotReady(node) == node.status # "Ready"
            CrashLoops(pod) == pod.waiting = "CrashLoopBackOff"
            Restarting(pod) == pod.restarts > 10
            IsWarning(event) == event.type = "Warning"
            nodes == SelectSeq(data.nodes.res, NotReady)
            looping == SelectSeq(data.pods, CrashLoops)
            restarting == SelectSeq(data.pods, Restarting)
            warnings == SelectSeq(data.events.res, IsWarning)
            n_nodes == FoundOfType("node_not_ready")
            n_looping == FoundOfType("pod_crash_loop")
            n_restarting == FoundOfType("frequent_restarts")
            n_warnings == FoundOfType("kubernetes_warning")
        IN  /\ Len(n_nodes) = Len(nodes)
            /\ \A i \in 1..Len(n_nodes) :
                  n_nodes[i].severity = "critical" /\ n_nodes[i].resource = <<"node", nodes[i].name>>
            /\ Len(n_looping) = Len(looping)
            /\ \A i \in 1..Len(n_looping) :
                  /\ n_looping[i].severity = "high"
                  /\ n_looping[i].resource = <<"pod", looping[i].namespace, looping[i].name>>
            /\ Len(n_restarting) = Len(restarting)
            /\ \A i \in 1..Len(n_restarting) :
                  /\ n_restarting[i].severity = "medium"
                  /\ n_restarting[i].resource = <<"pod", restarting[i].namespace, restarting[i].name>>
            /\ Len(n_warnings) = Min(10, Len(warnings))
            /\ \A i \in 1..Len(n_warnings) :
                  /\ n_warnings[i].severity = "medium"
                  /\ n_warnings[i].description = <<warnings[i].reason, warnings[i].message>>
            /\ Len(found) = Len(n_nodes) + Len(n_looping) + Len(n_restarting) + Len(n_warnings)
            /\ \A i, j \in 1..Len(found) :
                  i < j => TypeRank(found[i].type) <= TypeRank(found[j].type)

(* What a call returns when it runs alone and its upstream calls answer as  *)
(* call.answers                                                             *)
Alone(call) ==
    LET k == AnalyzeKubernetesState(call.answers[1])
        m == AnalyzeMetrics(call.answers[2])
        l == AnalyzeLogs(call.answers[3])
        t == AnalyzeTraces(call.answers[4])
        findings == k \o m \o l \o t
        ranked == DetermineRootCause(findings)
    IN  [findings |-> findings,
         analysis_steps |-> <<[step |-> "kubernetes_analysis", status |-> "completed", findings |-> k],
                              [step |-> "metrics_analysis", status |-> "completed", findings |-> m],
                              [step |-> "logs_analysis", status |-> "completed", findings |-> l],
                              [step |-> "traces_analysis", status |-> "completed", findings |-> t]>>,
         root_cause |-> ranked.root_cause,
         confidence |-> ranked.confidence,
         severity |-> ranked.severity,
         action_plan |-> GenerateActionPlan(ranked.root_cause, findings)]

Returned(call) ==
    [findings |-> call.findings, analysis_steps |-> call.analysis_steps,
     root_cause |-> call.root_cause, confidence |-> call.confidence,
     severity |-> call.severity, action_plan |-> call.action_plan]

(* C25: however two calls of analyze_incident interleave, each returns the  *)
(* findings, analysis steps, root cause and action plan it would return     *)
(* alone for the same upstream responses.                                   *)
ConcurrentCallsIndependent ==
    /\ analysis.pc = "done" => Returned(analysis) = Alone(analysis)
    /\ second.pc = "done" => Returned(second) = Alone(second)

(* Two interleaved calls over different clusters have both returned, one    *)
(* with a critical root cause and one with a medium one                     *)
BothReturned ==
    /\ analysis.pc = "done" /\ second.pc = "done"
    /\ analysis.upstream # second.upstream
    /\ analysis.severity = "critical" /\ second.severity = "medium"
    /\ Len(analysis.findings) > Len(second.findings)
    /\ second.timestamp = analysis.timestamp

(* Severity: critical > high > medium > low > info *)
SeverityOrder(severity) ==
    CASE severity = "critical" -> 5
      [] severity = "high" -> 4
      [] severity = "medium" -> 3
      [] severity = "low" -> 2
      [] severity = "info" -> 1

(* C26: the severity of the ranking is never lower than the highest         *)
(* severity among the findings: critical if some finding is critical, high  *)
(* if the highest is high, medium if every finding is medium, low or info;  *)
(* the confidence is one of 1.0, 0.9, 0.7 and 0.5.                          *)
RankNeverUnderstates ==
    analysis.pc \in {"plan", "done"} =>
        LET findings == analysis.findings
            orders == {SeverityOrder(findings[i].severity) : i \in 1..Len(findings)}
        IN  /\ \A o \in orders : SeverityOrder(analysis.severity) >= o
            /\ 5 \in orders => analysis.severity = "critical"
            /\ (4 \in orders /\ 5 \notin orders) => analysis.severity = "high"
            /\ (orders # {} /\ orders \subseteq {1, 2, 3}) => analysis.severity = "medium"
            /\ analysis.confidence \in {10, 9, 7, 5}
            /\ analysis.confidence >= 0 /\ analysis.confidence <= 10

(* Findings of severity low and info only were ranked medium *)
RankedAboveFindings ==
    /\ analysis.pc = "done"
    /\ Len(analysis.findings) >= 2
    /\ \A i \in 1..Len(analysis.findings) : analysis.findings[i].severity \in {"low", "info"}
    /\ \E i \in 1..Len(analysis.findings) : analysis.findings[i].severity = "info"
    /\ analysis.severity = "medium"
    /\ analysis.confidence = 5

(* The findings with finding i stripped of its suggested actions *)
WithoutActions(findings, i) ==
    [findings EXCEPT ![i] = [type |-> @.type, severity |-> @.severity,
                             description |-> @.description]]

(* Whether finding i of the analysis gives rise to steps of the plan: the   *)
(* plan has other steps when the finding suggests no action                 *)
Contributes(i) ==
    GenerateActionPlan(analysis.root_cause, WithoutActions(analysis.findings, i)).steps
        # analysis.action_plan.steps

(* The position of the finding chosen as root cause, 0 for no finding *)
RootCauseAt ==
    LET findings == analysis.findings
        c == FirstOf(findings, "critical")
        h == FirstOf(findings, "high")
    IN  IF findings = <<>> THEN 0 ELSE IF c > 0 THEN c ELSE IF h > 0 THEN h ELSE 1

(* C27: a finding contributes steps to the plan iff it is among the first   *)
(* three findings and has a non-empty suggested_actions list, whichever     *)
(* finding is the root cause; a root cause at position 4 or later           *)
(* contributes no step.                                                     *)
PlanIgnoresRootCause ==
    analysis.pc = "done" =>
        LET findings == analysis.findings
        IN  /\ \A i \in 1..Len(findings) :
                  Contributes(i) <=>
                      /\ i <= 3
                      /\ Has(findings[i], "suggested_actions")
                      /\ findings[i].suggested_actions # <<>>
            /\ \A i \in 1..Len(findings) :
                  analysis.action_plan.steps
                      = GenerateActionPlan(findings[i].description, findings).steps
            /\ RootCauseAt >= 4 =>
                  /\ analysis.root_cause = findings[RootCauseAt].description
                  /\ ~Contributes(RootCauseAt)

(* The only critical finding is the fourth: it is the root cause and no     *)
(* step of the plan is related to it                                        *)
RootCauseOutsidePlan ==
    /\ analysis.pc = "done"
    /\ Len(analysis.findings) = 4
    /\ RootCauseAt = 4
    /\ analysis.severity = "critical"
    /\ analysis.action_plan.root_cause = analysis.findings[4].description
    /\ analysis.action_plan.total_steps = 9
    /\ \A j \in 3..8 : analysis.action_plan.steps[j].related_finding # analysis.findings[4].type

(* C28: a summary of a cluster sample without ready_nodes and total_nodes   *)
(* (no tick has completed, or the node-status query of the latest tick      *)
(* failed) carries the 30-point node penalty: its health score is at most   *)
(* 70, and exactly 70 when no sample exists.                                *)
NodePenaltyByDefault ==
    summary # <<>> =>
        LET cm == summary.cluster_metrics
        IN  /\ fresh => cm = SectionMetrics(collected_metrics, "cluster", EmptyDict)
            /\ (~Has(cm, "ready_nodes") /\ ~Has(cm, "total_nodes")) =>
                  /\ summary.cluster_health_score <= 70
                  /\ summary.cluster_health_score =
                        HealthScore(Put(Put(cm, "ready_nodes", 0), "total_nodes", 1))
            /\ cm = EmptyDict => summary.cluster_health_score = 70

(* A summary taken before any tick scored 70, and one of a sample with cpu  *)
(* 85 whose node-status query failed scored 50                              *)
ScoredWithoutNodes ==
    /\ summary # <<>> /\ prev_summary # <<>>
    /\ prev_summary.cluster_metrics = EmptyDict
    /\ prev_summary.metrics_age_minutes = <<0, 1>>
    /\ prev_summary.cluster_health_score = 70
    /\ ~Has(summary.cluster_metrics, "total_nodes")
    /\ Get(summary.cluster_metrics, "cpu_usage_percent", 0) = 85
    /\ summary.cluster_health_score = 50

(* C29: if any of the nodes, pods and events queries of the cluster-state   *)
(* adapter raises, the adapter returns no finding at all, also none derived *)
(* from the queries that succeeded before.                                  *)
ClusterStateAllOrNothing ==
    analysis.pc \in {"metrics", "logs", "traces", "rank", "plan", "done"} =>
        LET r == analysis.answers[1]
            IsCluster(finding) ==
                finding.type \in {"node_not_ready", "pod_crash_loop", "frequent_restarts",
                                  "kubernetes_warning"}
        IN  (r.nodes.err \/ r.pods.err \/ r.events.err) =>
                /\ Contribution(1) = <<>>
                /\ SelectSeq(analysis.findings, IsCluster) = <<>>

(* The nodes query reported a node that is not ready and the pods query a   *)
(* restarting pod, the events query raised: the analysis has no finding of  *)
(* the cluster state.                                                       *)
LostNotReadyNode ==
    /\ analysis.pc = "done"
    /\ ~analysis.answers[1].nodes.err /\ ~analysis.answers[1].pods.err
    /\ analysis.answers[1].events.err
    /\ \E i \in 1..Len(analysis.answers[1].nodes.res) :
          analysis.answers[1].nodes.res[i].status = "NotReady"
    /\ Contribution(1) = <<>>
    /\ analysis.severity # "critical"

(* What a check found: "unhealthy" if its query raised, "degraded" if it    *)
(* saw a node that is not ready or a failed pod, "none" otherwise           *)
NodeProblem ==
    LET answer == health.answers["nodes"]
    IN  IF answer.err THEN "unhealthy"
        ELSE IF \E i \in 1..Len(answer.res) : answer.res[i].status # "Ready" THEN "degraded"
        ELSE "none"

PodProblem ==
    LET answer == health.answers["pods"]
    IN  IF answer.err THEN "unhealthy"
        ELSE IF \E i \in 1..Len(answer.res) :
                   answer.res[i].status \in {"CrashLoopBackOff", "Error", "Failed"}
             THEN "degraded"
        ELSE "none"

(* C30: the overall_status of check_kubernetes_cluster_health is that of    *)
(* the last check that found a problem, not of the worst: DEGRADED when the *)
(* node query raised and the pod query then reported failed pods; it is     *)
(* HEALTHY only if both queries succeed, every node is ready and no pod is  *)
(* failed.                                                                  *)
StatusOfLastProblem ==
    health.pc \in {"info", "done"} =>
        /\ health.overall_status =
              IF PodProblem # "none" THEN PodProblem
              ELSE IF NodeProblem # "none" THEN NodeProblem
              ELSE "healthy"
        /\ (NodeProblem = "unhealthy" /\ PodProblem = "degraded") =>
              health.overall_status = "degraded"
        /\ health.overall_status = "healthy" <=> (NodeProblem = "none" /\ PodProblem = "none")

(* The node query raised and the pod query reported a failed pod: the       *)
(* nodes component is UNHEALTHY and the overall status DEGRADED             *)
DegradedAfterUnhealthy ==
    /\ health.pc = "done"
    /\ health.answers["nodes"].err
    /\ ~health.answers["pods"].err
    /\ health.components["nodes"].status = "unhealthy"
    /\ health.components["pods"].failed = 1
    /\ health.overall_status = "degraded"

====
